---- MODULE Spec2Model ----
(***************************************************************************)
(* Model of the ScrollSafe doomscroller analysis pipeline.                 *)
(*                                                                         *)
(* Part I  : process_video (tasks/analyzer.py) run by several Celery       *)
(*           workers against one Redis and one Postgres.                   *)
(* Part II : the frame-extraction fallback ladder of the resolver          *)
(*           (resolver/doomscroller_resolver.py).                          *)
(* Part III: the read-back of the frame files, on large directories.       *)
(* Part IV : _aggregate and _decide_label (tasks/analyzer.py).             *)
(* Part V  : run_discovery_once (scripts/discover.py).                     *)
(* Part VI : _upsert_results (tasks/analyzer.py) on the rows of the tables.*)
(* Part VII: POST /analyze of the resolver and the jobs that call it, with *)
(*           the timeouts of both sides (time in units of 30 s).           *)
(* Part VIII: run_discovery_job (tasks/scheduler.py) and its retries.      *)
(* Part IX : discover_since of the YouTube provider (providers/youtube.py).*)
(* Part X  : _probe_duration and _compute_fps of the resolver.             *)
(* Part XI : process_deep_scan_job (scrollsafe-backend/deep_scan/tasks.py).*)
(*                                                                         *)
(* Time is counted in ticks of 86400 s: a Redis key is modelled by its     *)
(* remaining time to live, 0 meaning that the key does not exist.          *)
(***************************************************************************)
EXTENDS Integers, Sequences, FiniteSets, TLC

\* ------------------------------------------------------------------------
\* Bounds of the model
\* ------------------------------------------------------------------------
NumWorkers == 2

\* Largest target_frames of a request
MaxTargetFrames == 2

\* Largest number of frame files in a directory listing that is read back
MaxFrameIndex == 1000

\* Largest number of per-frame results in an inference payload
MaxFrames == 5

\* Largest number of candidates that one provider returns in a sweep
MaxItems == 2

\* Largest number of calls of _upsert_results in a run
MaxWrites == 3

\* Largest number of process_video invocations that call the resolver
MaxRequests == 2

\* Largest configured DISCOVERY_MAX_RETRIES
MaxConfiguredRetries == 4

Workers == 1..NumWorkers

\* (platform, video_id) pairs that are delivered to the workers
Videos == {"v1"}

\* ------------------------------------------------------------------------
\* Program constants (config.py), in ticks of 86400 s
\* ------------------------------------------------------------------------
\* IDEMPOTENCY_TTL_SECONDS = 86400
IdempotencyTTL == 1

\* IDEMPOTENCY_STAMP_TTL_SECONDS = 259200
StampTTL == 3

\* ex=3600 of the snapshot, rounded up to one tick
SnapshotTTL == 1

\* "frame_%03d.jpg": least number of digits of a frame file's index
PadWidth == 3

\* Timeouts, in units of 30 s
\* subprocess.run(cmd, ..., timeout=30) of the duration probe
ProbeTimeout == 1

\* FRAME_EXTRACT_TIMEOUT = 180, sent as "timeout" of the request
FrameExtractTimeout == 6

\* requests.post(endpoint, ..., timeout=180) of the resolver
InferPostTimeout == 6

\* timeout=settings.frame_extract_timeout + 30
ResolverBuffer == 1

\* stop_after_attempt(3) of the analyzer's own _call_inference
StopAfterAttempt == 3

\* max_retries of a Celery task that sets none (Task.max_retries): what
\* self.retry(exc=exc, countdown=delay) goes by
TaskMaxRetries == 3

VARIABLES
    dedupe,          \* dedupe[v]: TTL of analyzed:{platform}:{video_id}@doom_v1@even_N
    snapshot,        \* snapshot[v]: TTL of video:{platform}:{video_id}
    videos,          \* rows of table videos (set of keys)
    analyses,        \* rows of table analyses (set of keys)
    pc,              \* pc[w]: position of worker w inside process_video
    vid,             \* vid[w]: the video of w's current invocation
    calledResolver,  \* history: w's invocation sent POST /analyze
    wroteDb,         \* history: w's invocation committed its upsert
    raised,          \* raised[w]: the step whose exception is propagating
    sinceSuccess,    \* history: ticks since the last successful invocation on v
    xpc,             \* Part II: position inside _extract_frames
    xstarted,        \* Part II: stages started so far, in order
    xreport,         \* Part II: what each started stage reported
    xcause,          \* Part II: why each started stage failed
    xfiles,          \* Part II: frame files in the temp dir (index -> writer)
    xtmpdir,         \* Part II: the temp dir exists
    xtarget,         \* Part II: target_frames of the request
    xresult,         \* Part II: the frames returned (writer of each)
    xblocked,        \* Part II: the call without a timeout that the stage waits in
    rpc,             \* Part III: position inside the read-back of the temp dir
    rtarget,         \* Part III: target_frames
    rfiles,          \* Part III: number of frame files in the temp dir
    rlast,           \* Part III: index of the frame file read last (0: none)
    rcount,          \* Part III: number of frames read into the result
    rascending,      \* Part III: history: every frame read so far had a larger
                     \*           index than the one read before it
    gpc,             \* Part IV: position around the call of _aggregate
    gresults,        \* Part IV: payload["results"], the label_scores per frame
    gkeyword,        \* Part IV: title or channel holds one of the AI keywords
    gout,            \* Part IV: what _aggregate returned
    dpc,             \* Part V: position inside run_discovery_once
    dlimit,          \* Part V: total_limit
    dnext,           \* Part V: index of the provider to run next
    draw,            \* Part V: raw_candidates
    dbest,           \* Part V: best_by_key.values(), in insertion order
    dranked,         \* Part V: ranked
    dqueue,          \* Part V: messages sent to the queue by this sweep
    dreturned,       \* Part V: the count returned (-1: nothing returned)
    dfailed,         \* Part V: the providers logged as failed in this sweep
    upc,             \* Part VI: position inside _upsert_results
    urec,            \* Part VI: the arguments of the call
    unow,            \* Part VI: `now` of the call (number of the call)
    utxVideos,       \* Part VI: table videos as the open transaction sees it
    utxAnalyses,     \* Part VI: table analyses as the open transaction sees it
    uvideos,         \* Part VI: committed rows of table videos
    uanalyses,       \* Part VI: committed rows of table analyses
    jpc,             \* Part VII: jpc[q]: position of invocation q of process_video
    jkey,            \* Part VII: TTL of the dedup key of the video
    zpc,             \* Part VII: zpc[q]: position of the resolver inside analyze
    zclock,          \* Part VII: zclock[q]: time since the POST when the current
                     \*           step of the resolver began (capped after the
                     \*           caller's deadline)
    zframes,         \* Part VII: zframes[q]: len(frames) returned by _extract_frames
    zposts,          \* Part VII: zposts[q]: inference POSTs made for the request
    zlast,           \* Part VII: zlast[q]: outcome of the last inference POST
    zraised,         \* Part VII: zraised[q]: the exception raised inside analyze
    zresp,           \* Part VII: zresp[q]: the HTTP response of analyze
    spc,             \* Part VIII: where the firing of run_discovery_job stands
    smax,            \* Part VIII: settings.discovery_max_retries
    sretries,        \* Part VIII: self.request.retries of the queued execution
    sexecs,          \* Part VIII: history: executions of this firing so far
    shealth,         \* Part VIII: history: the health check of the last execution
    sswept,          \* Part VIII: history: the last execution called the sweep
    sdelay,          \* Part VIII: the countdown of the retry that is queued
    senqueued,       \* Part VIII: videos enqueued by this firing
    ypc,             \* Part IX: position of discover_since
    ylimit,          \* Part IX: the argument limit
    yregion,         \* Part IX: index of the region being swept
    ypages,          \* Part IX: pages, the counter of _sweep_region
    yitems,          \* Part IX: all_items of _sweep_region
    yfetched,        \* Part IX: calls of _fetch_shorts_page for this region
    yauth,           \* Part IX: regions whose sweep met a 401 or 403
    ykept,           \* Part IX: number of items _sweep_region returned, by region
    ycands,          \* Part IX: candidates of discover_since
    fpc,             \* Part X: position of the extraction of one request
    ftarget,         \* Part X: target_frames of the request
    fprobe,          \* Part X: what the duration probe did
    fduration,       \* Part X: duration, in tenths of a second
    ffps,            \* Part X: the fps of the ffmpeg command, a fraction
    kpc,             \* Part XI: position of process_deep_scan_job
    kpayload,        \* Part XI: the payload of the job and what its calls will answer
    klock,           \* Part XI: holder of deep:lock:{platform}:{video_id}
    kacquired,       \* Part XI: lock_acquired of the job
    kdir,            \* Part XI: the frame directory of the job exists
    kstatus,         \* Part XI: the value stored under deep:job:{job_id}
    kgemini          \* Part XI: history: what the Gemini step of the job did

avars == <<dedupe, snapshot, videos, analyses, pc, vid,
           calledResolver, wroteDb, raised, sinceSuccess>>

xvars == <<xpc, xstarted, xreport, xcause, xfiles, xtmpdir, xtarget, xresult,
           xblocked>>

rvars == <<rpc, rtarget, rfiles, rlast, rcount, rascending>>

vars == <<dedupe, snapshot, videos, analyses, pc, vid,
          calledResolver, wroteDb, raised, sinceSuccess,
          xpc, xstarted, xreport, xcause, xfiles, xtmpdir, xtarget, xresult,
          xblocked,
          rpc, rtarget, rfiles, rlast, rcount, rascending,
          gpc, gresults, gkeyword, gout,
          dpc, dlimit, dnext, draw, dbest, dranked, dqueue, dreturned, dfailed,
          upc, urec, unow, utxVideos, utxAnalyses, uvideos, uanalyses,
          jpc, jkey, zpc, zclock, zframes, zposts, zlast, zraised, zresp,
          spc, smax, sretries, sexecs, shealth, sswept, sdelay, senqueued,
          ypc, ylimit, yregion, ypages, yitems, yfetched, yauth, ykept, ycands,
          fpc, ftarget, fprobe, fduration, ffps,
          kpc, kpayload, klock, kacquired, kdir, kstatus, kgemini>>

uvars == <<upc, urec, unow, utxVideos, utxAnalyses, uvideos, uanalyses>>

gvars == <<gpc, gresults, gkeyword, gout>>

dvars == <<dpc, dlimit, dnext, draw, dbest, dranked, dqueue, dreturned, dfailed>>

zvars == <<jpc, jkey, zpc, zclock, zframes, zposts, zlast, zraised, zresp>>

svars == <<spc, smax, sretries, sexecs, shealth, sswept, sdelay, senqueued>>

yvars == <<ypc, ylimit, yregion, ypages, yitems, yfetched, yauth, ykept, ycands>>

fvars == <<fpc, ftarget, fprobe, fduration, ffps>>

kvars == <<kpc, kpayload, klock, kacquired, kdir, kstatus, kgemini>>

\* What each part leaves alone
outsideA == <<xvars, rvars, gvars, dvars, uvars, zvars, svars, yvars, fvars, kvars>>

outsideX == <<avars, rvars, gvars, dvars, uvars, zvars, svars, yvars, fvars, kvars>>

outsideR == <<avars, xvars, gvars, dvars, uvars, zvars, svars, yvars, fvars, kvars>>

outsideG == <<avars, xvars, rvars, dvars, uvars, zvars, svars, yvars, fvars, kvars>>

outsideD == <<avars, xvars, rvars, gvars, uvars, zvars, svars, yvars, fvars, kvars>>

outsideU == <<avars, xvars, rvars, gvars, dvars, zvars, svars, yvars, fvars, kvars>>

outsideZ == <<avars, xvars, rvars, gvars, dvars, uvars, svars, yvars, fvars, kvars>>

outsideS == <<avars, xvars, rvars, gvars, dvars, uvars, zvars, yvars, fvars, kvars>>

outsideY == <<avars, xvars, rvars, uvars, gvars, dvars, zvars, svars, fvars, kvars>>

outsideF == <<avars, xvars, rvars, uvars, gvars, dvars, zvars, svars, yvars, kvars>>

outsideK == <<avars, xvars, rvars, uvars, gvars, dvars, zvars, svars, yvars, fvars>>

\* ------------------------------------------------------------------------
\* Redis commands, on the TTL of one key
\* ------------------------------------------------------------------------

\* A bug: SET ... EX without honouring NX when the key exists (TTL refreshed)
RedisSetNxEx_Refresh(cur, ttl) ==
    IF cur = 0 THEN [acquired |-> TRUE, ttl |-> ttl]
               ELSE [acquired |-> FALSE, ttl |-> ttl]

\* A bug: SET ... NX without EX (the key never expires)
RedisSetNxEx_NoEx(cur, ttl) ==
    IF cur = 0 THEN [acquired |-> TRUE, ttl |-> -1]
               ELSE [acquired |-> FALSE, ttl |-> cur]

\* redis.set(key, 1, nx=True, ex=ttl): truthy iff the key was absent
RedisSetNxEx(cur, ttl) ==
    IF cur = 0 THEN [acquired |-> TRUE, ttl |-> ttl]
               ELSE [acquired |-> FALSE, ttl |-> cur]

\* redis.expire(key, ttl): no effect on a key that does not exist
RedisExpire(cur, ttl) == IF cur = 0 THEN 0 ELSE ttl

\* redis.delete(key)
RedisDelete(cur) == 0

\* redis.set(key, value, ex=ttl)
RedisSetEx(cur, ttl) == ttl

\* One tick of Redis' clock on one key
Decay(t) == IF t > 0 THEN t - 1 ELSE t

\* ------------------------------------------------------------------------
\* Postgres: _upsert_results commits both rows in one transaction
\* ------------------------------------------------------------------------

\* A bug: conn.commit() missing, the connection is closed and rolls back
UpsertCommit_NoCommit(rows, v) == rows

UpsertCommit(rows, v) == rows \cup {v}

\* ------------------------------------------------------------------------
\* Part I: process_video
\* ------------------------------------------------------------------------
InFlightPc == {"claimed", "resolved", "aggregated", "upserted", "cached", "except"}

TerminalPc == {"ok", "skipped", "failed", "crashed"}

InFlight(w) == pc[w] \in InFlightPc

Holders(v) == {w \in Workers : InFlight(w) /\ vid[w] = v}

InitA ==
    /\ dedupe = [v \in Videos |-> 0]
    /\ snapshot = [v \in Videos |-> 0]
    /\ videos = {}
    /\ analyses = {}
    /\ pc = [w \in Workers |-> "idle"]
    /\ vid = [w \in Workers |-> CHOOSE v \in Videos : TRUE]
    /\ calledResolver = [w \in Workers |-> FALSE]
    /\ wroteDb = [w \in Workers |-> FALSE]
    /\ raised = [w \in Workers |-> "none"]
    /\ sinceSuccess = [v \in Videos |-> StampTTL]

\* The broker hands a process_video message for video v to worker w.
Deliver(w, v) ==
    /\ pc[w] \in TerminalPc \cup {"idle"}
    /\ pc' = [pc EXCEPT ![w] = "start"]
    /\ vid' = [vid EXCEPT ![w] = v]
    /\ calledResolver' = [calledResolver EXCEPT ![w] = FALSE]
    /\ wroteDb' = [wroteDb EXCEPT ![w] = FALSE]
    /\ raised' = [raised EXCEPT ![w] = "none"]
    /\ UNCHANGED <<dedupe, snapshot, videos, analyses, sinceSuccess>>

\* Lines 42-54: the SET NX EX and the early return; `up`: Redis answers.
\* An exception of redis.set leaves process_video before the try block.
Claim(w) ==
    /\ pc[w] = "start"
    /\ \E up \in BOOLEAN :
        LET v == vid[w]
            r == RedisSetNxEx(dedupe[v], IdempotencyTTL)
        IN  IF up
            THEN /\ dedupe' = [dedupe EXCEPT ![v] = r.ttl]
                 /\ pc' = [pc EXCEPT ![w] = IF r.acquired THEN "claimed" ELSE "skipped"]
                 /\ UNCHANGED raised
            ELSE /\ pc' = [pc EXCEPT ![w] = "failed"]
                 /\ raised' = [raised EXCEPT ![w] = "claim"]
                 /\ UNCHANGED dedupe
    /\ UNCHANGED <<snapshot, videos, analyses, vid, calledResolver, wroteDb,
                   sinceSuccess>>

\* Lines 62-87: POST {resolver_url}/analyze; a transport error, an HTTP error
\* status or success = false raises inside the try block.
ResolverCall(w) ==
    /\ pc[w] = "claimed"
    /\ calledResolver' = [calledResolver EXCEPT ![w] = TRUE]
    /\ \E ok \in BOOLEAN :
        /\ pc' = [pc EXCEPT ![w] = IF ok THEN "resolved" ELSE "except"]
        /\ raised' = [raised EXCEPT ![w] = IF ok THEN @ ELSE "resolver"]
    /\ UNCHANGED <<dedupe, snapshot, videos, analyses, vid, wroteDb, sinceSuccess>>

\* Lines 88-101: _aggregate; raises on a malformed inference payload.
Aggregate(w) ==
    /\ pc[w] = "resolved"
    /\ \E ok \in BOOLEAN :
        /\ pc' = [pc EXCEPT ![w] = IF ok THEN "aggregated" ELSE "except"]
        /\ raised' = [raised EXCEPT ![w] = IF ok THEN @ ELSE "aggregate"]
    /\ UNCHANGED <<dedupe, snapshot, videos, analyses, vid, calledResolver,
                   wroteDb, sinceSuccess>>

\* Lines 103-120 and 997-1073: both upserts, then conn.commit(); a failure
\* before the commit closes the connection and nothing is written.
UpsertResults(w) ==
    /\ pc[w] = "aggregated"
    /\ \E ok \in BOOLEAN :
        IF ok
        THEN /\ videos' = UpsertCommit(videos, vid[w])
             /\ analyses' = UpsertCommit(analyses, vid[w])
             /\ wroteDb' = [wroteDb EXCEPT ![w] = (vid[w] \in analyses')]
             /\ pc' = [pc EXCEPT ![w] = "upserted"]
             /\ UNCHANGED raised
        ELSE /\ pc' = [pc EXCEPT ![w] = "except"]
             /\ raised' = [raised EXCEPT ![w] = "upsert"]
             /\ UNCHANGED <<videos, analyses, wroteDb>>
    /\ UNCHANGED <<dedupe, snapshot, vid, calledResolver, sinceSuccess>>

\* Lines 122-139 and 1105-1137: redis.set(video:..., json, ex=3600), inside
\* the try block: an exception of Redis goes to the except handler.
CacheResult(w) ==
    /\ pc[w] = "upserted"
    /\ \E up \in BOOLEAN :
        IF up
        THEN /\ snapshot' = [snapshot EXCEPT ![vid[w]] = RedisSetEx(@, SnapshotTTL)]
             /\ pc' = [pc EXCEPT ![w] = "cached"]
             /\ UNCHANGED raised
        ELSE /\ pc' = [pc EXCEPT ![w] = "except"]
             /\ raised' = [raised EXCEPT ![w] = "cache"]
             /\ UNCHANGED snapshot
    /\ UNCHANGED <<dedupe, videos, analyses, vid, calledResolver, wroteDb,
                   sinceSuccess>>

\* A bug: succeeded = True already where the flag is initialised
SucceededAt_Initially(pcw) == TRUE

\* The flag `succeeded` (lines 57 and 139) when the finally block runs, by
\* the position the invocation left the try block from.
SucceededAt(pcw) == pcw = "cached"

\* Lines 144-148: the finally block; `up`: Redis answers the EXPIRE.
FinallyExpire(pcw, cur, up) ==
    IF SucceededAt(pcw) /\ up THEN RedisExpire(cur, StampTTL) ELSE cur

\* Lines 139 and 144-148: the try block ends normally and the finally block
\* runs.  An exception raised there leaves process_video; no handler
\* covers it.
Stamp(w) ==
    /\ pc[w] = "cached"
    /\ \E up \in BOOLEAN :
        LET v == vid[w]
            after == FinallyExpire(pc[w], dedupe[v], up)
        IN  /\ dedupe' = [dedupe EXCEPT ![v] = after]
            /\ IF up
               THEN /\ sinceSuccess' = [sinceSuccess EXCEPT ![v] = 0]
                    /\ pc' = [pc EXCEPT ![w] = "ok"]
                    /\ UNCHANGED raised
               ELSE /\ pc' = [pc EXCEPT ![w] = "failed"]
                    /\ raised' = [raised EXCEPT ![w] = "stamp"]
                    /\ UNCHANGED sinceSuccess
    /\ UNCHANGED <<snapshot, videos, analyses, vid, calledResolver, wroteDb>>

\* Lines 140-148 after an exception in the try block: redis.delete, the
\* re-raise, and the finally block on the way out.  If the delete itself
\* raises, that exception leaves process_video instead.
HandlerDelete(w) ==
    /\ pc[w] = "except"
    /\ \E up \in BOOLEAN,
          upFinally \in IF SucceededAt(pc[w]) THEN BOOLEAN ELSE {TRUE} :
        LET v == vid[w]
            deleted == IF up THEN RedisDelete(dedupe[v]) ELSE dedupe[v]
            after == FinallyExpire(pc[w], deleted, upFinally)
        IN  /\ dedupe' = [dedupe EXCEPT ![v] = after]
            /\ raised' = [raised EXCEPT ![w] = IF up THEN @ ELSE "delete"]
    /\ pc' = [pc EXCEPT ![w] = "failed"]
    /\ UNCHANGED <<snapshot, videos, analyses, vid, calledResolver, wroteDb,
                   sinceSuccess>>

\* The worker process dies: neither except nor finally runs.
Crash(w) ==
    /\ InFlight(w)
    /\ pc' = [pc EXCEPT ![w] = "crashed"]
    /\ UNCHANGED <<dedupe, snapshot, videos, analyses, vid, calledResolver,
                   wroteDb, raised, sinceSuccess>>

\* One tick of time: every Redis TTL runs down.
Tick ==
    /\ \E v \in Videos : dedupe[v] > 0 \/ snapshot[v] > 0 \/ sinceSuccess[v] < StampTTL
    /\ dedupe' = [v \in Videos |-> Decay(dedupe[v])]
    /\ snapshot' = [v \in Videos |-> Decay(snapshot[v])]
    /\ sinceSuccess' = [v \in Videos |->
                          IF sinceSuccess[v] < StampTTL THEN sinceSuccess[v] + 1
                                                        ELSE sinceSuccess[v]]
    /\ UNCHANGED <<videos, analyses, pc, vid, calledResolver, wroteDb, raised>>

\* ------------------------------------------------------------------------
\* Part II: _extract_frames and its stages
\* ------------------------------------------------------------------------
\* The ladder, in the order of the nested if/else of _extract_frames
Ladder == <<"fast", "fallbackA", "fallbackB", "fallbackC">>

Max(a, b) == IF a >= b THEN a ELSE b

Min(a, b) == IF a <= b THEN a ELSE b

\* ffmpeg writes frame_001.jpg .. frame_j.jpg into the shared temp dir,
\* replacing files of the same name and leaving the others in place.
WriteFrames(files, stage, j) ==
    [i \in 1..Max(Len(files), j) |-> IF i <= j THEN stage ELSE files[i]]

\* What _try_fast_path reports.  popen: subprocess.Popen of yt-dlp; ff: the
\* outcome of subprocess.run(ffmpeg); wait: ydl_proc.wait in the finally
\* block ("stuck": the second wait(timeout=5) raises TimeoutExpired, which
\* replaces the return value); nfiles: size of glob("frame_*.jpg").
FastPathReport(popen, ff, wait, nfiles) ==
    IF popen = "not_found" THEN "fail"
    ELSE IF wait = "stuck" THEN "raise"
    ELSE IF ff # "exit0" THEN "fail"
    ELSE IF nfiles = 0 THEN "fail" ELSE "ok"

FastPathCause(popen, ff, wait, nfiles) ==
    IF popen = "not_found" THEN "ytdlp_not_found"
    ELSE IF wait = "stuck" THEN "wait_timeout"
    ELSE IF ff = "not_found" THEN "ffmpeg_not_found"
    ELSE IF ff = "timeout" THEN "ffmpeg_timeout"
    ELSE IF ff = "nonzero" THEN "ffmpeg_failed"
    ELSE IF nfiles = 0 THEN "no_frames" ELSE "none"

\* What _try_fallback_b and _try_fallback_c report.  prep: URL resolution
\* (B) or the download (C); every exception is caught and reported.
FallbackReport(prep, ff, nfiles) ==
    IF prep # "ok" THEN "fail"
    ELSE IF ff # "exit0" THEN "fail"
    ELSE IF nfiles = 0 THEN "fail" ELSE "ok"

FallbackCause(prep, ff, nfiles) ==
    IF prep # "ok" THEN prep
    ELSE IF ff = "not_found" THEN "ffmpeg_not_found"
    ELSE IF ff = "timeout" THEN "ffmpeg_timeout"
    ELSE IF ff = "nonzero" THEN "ffmpeg_failed"
    ELSE IF nfiles = 0 THEN "no_frames" ELSE "none"

\* A bug: the driver goes on to the next stage whatever the stage reported
NextAfter_NoStop(stage, report) ==
    IF report = "raise" THEN "raised"
    ELSE IF stage = "fast" THEN "fallbackA"
    ELSE IF stage = "fallbackA" THEN "fallbackB"
    ELSE IF stage = "fallbackB" THEN "fallbackC"
    ELSE IF report = "ok" THEN "read" ELSE "raised"

\* The driver of _extract_frames: where control goes after a stage.
NextAfter(stage, report) ==
    IF report = "ok" THEN "read"
    ELSE IF report = "raise" THEN "raised"
    ELSE IF stage = "fast" THEN "fallbackA"
    ELSE IF stage = "fallbackA" THEN "fallbackB"
    ELSE IF stage = "fallbackB" THEN "fallbackC"
    ELSE "raised"

\* A bug: mkdtemp with a removal on the normal path only
TmpDirAfter_NoCleanupOnError(pcnext) == pcnext # "returned"

\* `with tempfile.TemporaryDirectory(...)`: the directory exists exactly
\* while control is inside the with block; a return and an exception both
\* leave the block.
TmpDirAfter(pcnext) == pcnext \notin {"returned", "raised"}

InitX ==
    /\ xpc = "idle"
    /\ xstarted = <<>>
    /\ xreport = <<>>
    /\ xcause = <<>>
    /\ xfiles = <<>>
    /\ xtmpdir = FALSE
    /\ xtarget = 1
    /\ xresult = <<>>
    /\ xblocked = "none"

\* POST /analyze reaches _extract_frames: probe, then the temp dir is made.
BeginExtract ==
    /\ xpc \in {"idle", "returned", "raised"}
    /\ \E t \in 1..MaxTargetFrames : xtarget' = t
    /\ xtmpdir' = TRUE
    /\ xfiles' = <<>>
    /\ xstarted' = <<>>
    /\ xreport' = <<>>
    /\ xcause' = <<>>
    /\ xresult' = <<>>
    /\ xblocked' = "none"
    /\ xpc' = "fast"

\* The driver's step after a stage: leaving the with block on an exception
\* removes the temp dir.
AfterStage(stage, report, cause, files) ==
    /\ xstarted' = Append(xstarted, stage)
    /\ xreport' = Append(xreport, report)
    /\ xcause' = Append(xcause, cause)
    /\ xpc' = NextAfter(stage, report)
    /\ xtmpdir' = TmpDirAfter(xpc')
    /\ xfiles' = IF xtmpdir' THEN files ELSE <<>>
    /\ UNCHANGED <<xtarget, xresult, xblocked>>

\* _try_fast_path with one of the two format selectors.
RunFastPath(stage) ==
    /\ xpc = stage
    /\ xblocked = "none"
    /\ \E popen \in {"started", "not_found"},
          ff \in {"exit0", "nonzero", "timeout", "not_found"},
          wait \in {"exited", "killed", "stuck"},
          j \in 0..xtarget :
        LET wrote == IF popen = "started" /\ ff # "not_found" THEN j ELSE 0
            files == WriteFrames(xfiles, stage, wrote)
        IN  AfterStage(stage,
                       FastPathReport(popen, ff, wait, Len(files)),
                       FastPathCause(popen, ff, wait, Len(files)),
                       files)

StageFast == RunFastPath("fast")

StageA == RunFastPath("fallbackA")

\* _try_fallback_b / _try_fallback_c.
RunFallback(stage, preps) ==
    /\ xpc = stage
    /\ xblocked = "none"
    /\ \E prep \in preps,
          ff \in {"exit0", "nonzero", "timeout", "not_found"},
          j \in 0..xtarget :
        LET wrote == IF prep = "ok" /\ ff # "not_found" THEN j ELSE 0
            files == WriteFrames(xfiles, stage, wrote)
        IN  AfterStage(stage,
                       FallbackReport(prep, ff, Len(files)),
                       FallbackCause(prep, ff, Len(files)),
                       files)

StageB == RunFallback("fallbackB", {"ok", "resolve_exception", "no_media_url"})

StageC == RunFallback("fallbackC", {"ok", "download_exception", "no_file"})

\* The blocking external calls of each stage and whether the call is given
\* a timeout: subprocess.run(ff_cmd, timeout=timeout) and
\* ydl_proc.wait(timeout=5) are; ydl.extract_info, ydl.download and
\* subprocess.check_output(probe_cmd) are not.
BlockingCalls ==
    [fast      |-> {[call |-> "ffmpeg", timeout |-> TRUE],
                    [call |-> "ydl_wait", timeout |-> TRUE]},
     fallbackA |-> {[call |-> "ffmpeg", timeout |-> TRUE],
                    [call |-> "ydl_wait", timeout |-> TRUE]},
     fallbackB |-> {[call |-> "extract_info", timeout |-> FALSE],
                    [call |-> "ffmpeg", timeout |-> TRUE]},
     fallbackC |-> {[call |-> "download", timeout |-> FALSE],
                    [call |-> "ffprobe", timeout |-> FALSE],
                    [call |-> "ffmpeg", timeout |-> TRUE]}]

\* The other side of a call does not answer.  A call with a timeout ends in
\* TimeoutExpired, which is one of the outcomes of the stage actions above;
\* a call without one keeps the stage waiting.
CallHangs ==
    /\ xblocked = "none"
    /\ xpc \in DOMAIN BlockingCalls
    /\ \E c \in BlockingCalls[xpc] :
          /\ ~c.timeout
          /\ xblocked' = c.call
    /\ UNCHANGED <<xpc, xstarted, xreport, xcause, xfiles, xtmpdir, xtarget,
                   xresult>>

\* The other side answers after all (nothing in the program makes it do so).
LateAnswer ==
    /\ xblocked # "none"
    /\ xblocked' = "none"
    /\ UNCHANGED <<xpc, xstarted, xreport, xcause, xfiles, xtmpdir, xtarget,
                   xresult>>

\* ------------------------------------------------------------------------
\* The read-back: sorted(tmpdir.glob("frame_*.jpg"))[:target_frames]
\* ------------------------------------------------------------------------
RECURSIVE Digits(_)
\* The decimal digits of i, most significant first
Digits(i) == IF i < 10 THEN <<i>> ELSE Append(Digits(i \div 10), i % 10)

\* printf's %0wd: zeros on the left up to w digits, never a truncation
ZeroPad(d, w) ==
    LET len == Max(Len(d), w)
        pad == len - Len(d)
    IN  [k \in 1..len |-> IF k <= pad THEN 0 ELSE d[k - pad]]

\* The digits of frame_NNN.jpg; the names differ in nothing else
FrameName(i) == ZeroPad(Digits(i), PadWidth)

FrameNames == [i \in 1..MaxFrameIndex |-> FrameName(i)]

\* Order of two file names as sorted() compares the paths: character by
\* character; where one digit string is a prefix of the other, the "." of
\* ".jpg" meets a digit and is the smaller character.
LexLess(a, b) ==
    \E k \in 1..Len(b) :
        /\ \A j \in 1..(k - 1) : j <= Len(a) /\ a[j] = b[j]
        /\ (k > Len(a) \/ a[k] < b[k])

\* Among the n files frame_001.jpg .. of the directory, the one that the
\* sorted listing holds right after file `last` (0: the first of the listing)
NextFrame(n, last) ==
    CHOOSE i \in 1..n :
        /\ (last = 0 \/ LexLess(FrameNames[last], FrameNames[i]))
        /\ \A k \in 1..n :
              (last = 0 \/ LexLess(FrameNames[last], FrameNames[k]))
                 => ~LexLess(FrameNames[k], FrameNames[i])

RECURSIVE ListFrom(_, _, _)
\* The m entries of the sorted listing that follow file `last`
ListFrom(n, last, m) ==
    IF m = 0 THEN <<>>
    ELSE LET i == NextFrame(n, last)
         IN  <<i>> \o ListFrom(n, i, m - 1)

\* Lines 382-390: read the sorted frame files, at most target_frames of them.
ReadFrames ==
    /\ xpc = "read"
    /\ IF Len(xfiles) = 0
       THEN /\ xpc' = "raised"
            /\ UNCHANGED xresult
       ELSE /\ xpc' = "returned"
            /\ xresult' =
                 LET m == Min(Len(xfiles), xtarget)
                     listing == ListFrom(Len(xfiles), 0, m)
                 IN  [p \in 1..m |-> xfiles[listing[p]]]
    /\ xtmpdir' = TmpDirAfter(xpc')
    /\ xfiles' = IF xtmpdir' THEN xfiles ELSE <<>>
    /\ UNCHANGED <<xstarted, xreport, xcause, xtarget, xblocked>>

\* ------------------------------------------------------------------------
\* Part III: the read-back on its own, one file per step, for directories
\* of up to MaxFrameIndex files
\* ------------------------------------------------------------------------
InitR ==
    /\ rpc = "idle"
    /\ rtarget = 1
    /\ rfiles = 0
    /\ rlast = 0
    /\ rcount = 0
    /\ rascending = TRUE

\* A ladder stage reported success: ffmpeg ran with -frames:v target_frames
\* and the directory holds frame_001.jpg .. frame_n.jpg, n <= target_frames.
ListDir ==
    /\ rpc \in {"idle", "returned", "raised"}
    /\ \E t \in {1, 2, MaxFrameIndex - 1, MaxFrameIndex} :
        \E n \in {0, 1, t} :
            /\ rtarget' = t
            /\ rfiles' = n
    /\ rlast' = 0
    /\ rcount' = 0
    /\ rascending' = TRUE
    /\ rpc' = "listed"

\* `if not frame_files: raise RuntimeError(...)`
RaiseNoFiles ==
    /\ rpc = "listed"
    /\ rfiles = 0
    /\ rpc' = "raised"
    /\ UNCHANGED <<rtarget, rfiles, rlast, rcount, rascending>>

\* One p.read_bytes() of the list comprehension over frame_files[:target]
ReadOne ==
    /\ rpc = "listed"
    /\ rfiles > 0
    /\ rcount < Min(rfiles, rtarget)
    /\ rlast' = NextFrame(rfiles, rlast)
    /\ rcount' = rcount + 1
    /\ rascending' = (rascending /\ rlast' > rlast)
    /\ UNCHANGED <<rpc, rtarget, rfiles>>

\* `return frames`
ReturnFrames ==
    /\ rpc = "listed"
    /\ rfiles > 0
    /\ rcount = Min(rfiles, rtarget)
    /\ rpc' = "returned"
    /\ UNCHANGED <<rtarget, rfiles, rlast, rcount, rascending>>

\* ------------------------------------------------------------------------
\* Part IV: _aggregate, _check_heuristics and _decide_label.  Probabilities
\* and confidences are counted in hundredths (97 is 0.97); fractions are
\* compared by cross-multiplication.
\* ------------------------------------------------------------------------

\* The label_scores an inference result may carry: (real, artificial)
FrameGrid ==
    { [real |-> 0, artificial |-> 0],
      [real |-> 90, artificial |-> 10],
      [real |-> 50, artificial |-> 50],
      [real |-> 20, artificial |-> 80],
      [real |-> 10, artificial |-> 90],
      [real |-> 7, artificial |-> 93],
      [real |-> 3, artificial |-> 97] }

RECURSIVE SumSeq(_)
SumSeq(s) == IF s = <<>> THEN 0 ELSE Head(s) + SumSeq(Tail(s))

RECURSIVE MinSeq(_)
MinSeq(s) == IF Len(s) = 1 THEN Head(s) ELSE Min(Head(s), MinSeq(Tail(s)))

RECURSIVE InsertDesc(_, _)
InsertDesc(s, x) ==
    IF s = <<>> THEN <<x>>
    ELSE IF x >= Head(s) THEN <<x>> \o s
    ELSE <<Head(s)>> \o InsertDesc(Tail(s), x)

RECURSIVE SortedDesc(_)
\* sorted(artificial_scores, reverse=True)
SortedDesc(s) == IF s = <<>> THEN <<>> ELSE InsertDesc(SortedDesc(Tail(s)), Head(s))

\* s[:k]
Take(s, k) == SubSeq(s, 1, Min(Len(s), k))

\* sum(score >= th for score in s)
CountAtLeast(s, th) == Cardinality({i \in DOMAIN s : s[i] >= th})

\* _check_heuristics: the verdict on title and channel
CheckHeuristics(keyword) == IF keyword THEN "ai-detected" ELSE "verified"

\* A bug: the guard on the number of frames of the top-5 clause left out
VeryStrongNoKeywords_NoLenGuard(total, count95, count90, top3, sorted) ==
    \/ count95 * 100 >= 60 * total
    \/ (count95 >= 6 /\ SumSeq(top3) >= 97 * Len(top3))
    \/ (count90 * 100 >= 75 * total /\ MinSeq(Take(sorted, 5)) >= 93)

\* The condition of the branch "NO AI keywords" of rule 2 of _decide_label
VeryStrongNoKeywords(total, count95, count90, top3, sorted) ==
    \/ count95 * 100 >= 60 * total
    \/ (count95 >= 6 /\ SumSeq(top3) >= 97 * Len(top3))
    \/ (/\ count90 * 100 >= 75 * total
        /\ Len(sorted) >= 5
        /\ MinSeq(Take(sorted, 5)) >= 93)

\* A bug: with AI keywords larger shares of frames at 0.95 and at 0.90 are
\* asked for than without them
StrongWithKeywords_Stricter(total, count95, count90, top3) ==
    \/ count95 * 100 >= 70 * total
    \/ (count90 >= 4 /\ SumSeq(top3) >= 94 * Len(top3))
    \/ count90 * 100 >= 80 * total

\* The condition of the branch "WITH AI keywords" of rule 2 of _decide_label
StrongWithKeywords(total, count95, count90, top3) ==
    \/ count95 * 100 >= 35 * total
    \/ (count90 >= 4 /\ SumSeq(top3) >= 94 * Len(top3))
    \/ count90 * 100 >= 50 * total

\* _decide_label(scores_list, heuristics_result)
DecideLabel(scores_list, heuristics) ==
    LET total == Len(scores_list)
        art == [i \in DOMAIN scores_list |-> scores_list[i].artificial]
        artVotes == Cardinality({i \in DOMAIN scores_list :
                        scores_list[i].artificial >= scores_list[i].real})
        sorted == SortedDesc(art)
        maxArt == IF total > 0 THEN sorted[1] ELSE 0
        top3 == Take(sorted, 3)
        count95 == CountAtLeast(art, 95)
        count90 == CountAtLeast(art, 90)
        count80 == CountAtLeast(art, 80)
        hasKeywords == (heuristics = "ai-detected")
        features == [real_votes |-> total - artVotes,
                     artificial_votes |-> artVotes,
                     total_frames |-> total,
                     max_artificial |-> maxArt]
        out(l, c, r) == [label |-> l, confidence |-> c, reason |-> <<r>>,
                         features |-> features]
    IN  IF total < 4
        THEN out("real", 50, "too_few_frames_default_real")
        ELSE IF /\ hasKeywords
                /\ StrongWithKeywords(total, count95, count90, top3)
        THEN out("artificial", maxArt, "strong_artificial_with_keywords")
        ELSE IF /\ ~hasKeywords
                /\ VeryStrongNoKeywords(total, count95, count90, top3, sorted)
        THEN out("artificial", maxArt, "very_strong_artificial_no_keywords")
        ELSE IF /\ hasKeywords
                /\ \/ count90 >= 1
                   \/ count80 * 100 >= 20 * total
                   \/ maxArt >= 85
        THEN out("suspicious", maxArt, "ai_keywords_with_signals")
        ELSE IF /\ ~hasKeywords
                /\ \/ (3 <= count90 /\ count90 <= 5
                          /\ SumSeq(top3) >= 93 * Len(top3))
                   \/ (30 * total <= count90 * 100 /\ count90 * 100 <= 60 * total
                          /\ maxArt >= 92)
                   \/ (count80 * 100 >= 40 * total
                          /\ SumSeq(top3) >= 90 * Len(top3))
        THEN out("suspicious", maxArt, "mixed_signal_no_keywords")
        ELSE out("real", Max(100 - maxArt, 60), "default_real")

\* A bug: the internal label is returned as it is
LabelMap_Identity(internal) == internal

\* label_map.get(internal_label, "verified")
LabelMap(internal) ==
    IF internal = "artificial" THEN "ai-detected"
    ELSE IF internal = "suspicious" THEN "suspicious"
    ELSE "verified"

\* A bug: the reason of the decision is passed on as it is
ReasonOf_Bare(suffix) == suffix

\* f"model_vote: {reason_suffix}", as the sequence of its parts
ReasonOf(suffix) == <<"model_vote: ">> \o suffix

\* A bug: one vote per frame, for the label with the higher score
VoteTotals_HardVotes(results) ==
    [real |-> 100 * Cardinality({i \in DOMAIN results :
                                    results[i].real > results[i].artificial}),
     artificial |-> 100 * Cardinality({i \in DOMAIN results :
                                    results[i].artificial >= results[i].real})]

\* vote_totals of _aggregate: the scores of the frames, summed per label
VoteTotals(results) ==
    [real |-> SumSeq([i \in DOMAIN results |-> results[i].real]),
     artificial |-> SumSeq([i \in DOMAIN results |-> results[i].artificial])]

\* _aggregate(payload, title, channel).  A vote share is the fraction
\* num / den; `total_votes = ... or 1.0` makes den 100 hundredths when the
\* totals are zero.
AggregateResults(results, keyword) ==
    LET realTotal == VoteTotals(results).real
        artTotal == VoteTotals(results).artificial
        totalVotes == IF realTotal + artTotal = 0 THEN 100 ELSE realTotal + artTotal
        decision == DecideLabel(results, CheckHeuristics(keyword))
    IN  [vote_share |-> [real |-> [num |-> realTotal, den |-> totalVotes],
                         artificial |-> [num |-> artTotal, den |-> totalVotes]],
         label |-> LabelMap(decision.label),
         confidence |-> decision.confidence,
         reason |-> ReasonOf(decision.reason),
         features |-> decision.features,
         decision |-> decision]

NoResult == [label |-> "none"]

InitG ==
    /\ gpc = "idle"
    /\ gresults = <<>>
    /\ gkeyword = FALSE
    /\ gout = NoResult

\* The resolver answered with the inference payload of a video.
ReceivePayload ==
    /\ gpc = "idle"
    /\ \E n \in 0..MaxFrames : \E results \in [1..n -> FrameGrid] :
          gresults' = results
    /\ gkeyword' \in BOOLEAN
    /\ gpc' = "received"
    /\ UNCHANGED gout

\* Lines 88-101 of process_video: the call of _aggregate.
RunAggregate ==
    /\ gpc = "received"
    /\ gout' = AggregateResults(gresults, gkeyword)
    /\ gpc' = "aggregated"
    /\ UNCHANGED <<gresults, gkeyword>>

\* ------------------------------------------------------------------------
\* Part V: run_discovery_once (scripts/discover.py).  A candidate is a
\* record that may lack fields, as the dict it models may lack keys.
\* ------------------------------------------------------------------------

\* PROVIDERS, in the order of the registry
Providers == <<"youtube", "other">>

\* The candidates a provider may return
CandidateGrid ==
    { [platform |-> "youtube", video_id |-> "a", views_per_hour |-> 2],
      [platform |-> "youtube", video_id |-> "a", views_per_hour |-> 1],
      [platform |-> "youtube", video_id |-> "b", views_per_hour |-> 1],
      [platform |-> "youtube", video_id |-> "b"],
      [platform |-> "youtube", views_per_hour |-> 3] }

\* c.get("platform"), c.get("video_id"): "" stands for None
GetField(c, field) == IF field \in DOMAIN c THEN c[field] ELSE ""

\* c.get("views_per_hour", 0.0)
ViewsPerHour(c) == IF "views_per_hour" \in DOMAIN c THEN c.views_per_hour ELSE 0

KeyOf(c) == <<GetField(c, "platform"), GetField(c, "video_id")>>

\* A bug: every candidate is kept
PutBest_KeepAll(best, c) == Append(best, c)

\* A bug: the candidate seen last replaces the one kept for its key
PutBest_KeepLast(best, c) ==
    IF GetField(c, "platform") = "" \/ GetField(c, "video_id") = ""
    THEN best
    ELSE IF \A i \in DOMAIN best : KeyOf(best[i]) # KeyOf(c)
    THEN Append(best, c)
    ELSE LET i == CHOOSE i \in DOMAIN best : KeyOf(best[i]) = KeyOf(c)
         IN  [best EXCEPT ![i] = c]

\* Lines 50-60: one round of the loop over raw_candidates
PutBest(best, c) ==
    IF GetField(c, "platform") = "" \/ GetField(c, "video_id") = ""
    THEN best
    ELSE IF \A i \in DOMAIN best : KeyOf(best[i]) # KeyOf(c)
    THEN Append(best, c)
    ELSE LET i == CHOOSE i \in DOMAIN best : KeyOf(best[i]) = KeyOf(c)
         IN  IF ViewsPerHour(c) > ViewsPerHour(best[i])
             THEN [best EXCEPT ![i] = c]
             ELSE best

RECURSIVE BestByKey(_, _)
\* Lines 48-60: the loop, from the dict `best` over the candidates `raw`
BestByKey(best, raw) ==
    IF raw = <<>> THEN best
    ELSE BestByKey(PutBest(best, Head(raw)), Tail(raw))

RECURSIVE InsertRanked(_, _)
\* A stable sort keeps equal keys in the order of their arrival
InsertRanked(s, c) ==
    IF s = <<>> THEN <<c>>
    ELSE IF ViewsPerHour(c) > ViewsPerHour(Head(s)) THEN <<c>> \o s
    ELSE <<Head(s)>> \o InsertRanked(Tail(s), c)

RECURSIVE SortedByViews(_, _)
SortedByViews(done, rest) ==
    IF rest = <<>> THEN done
    ELSE SortedByViews(InsertRanked(done, Head(rest)), Tail(rest))

\* A bug: the candidates are truncated in the order of their discovery
RankCandidates_NoSort(best, total_limit) ==
    IF total_limit > 0 THEN Take(best, total_limit) ELSE best

\* Lines 62-68: sorted(..., reverse=True), then ranked[:total_limit]
RankCandidates(best, total_limit) ==
    LET ranked == SortedByViews(<<>>, best)
    IN  IF total_limit > 0 THEN Take(ranked, total_limit) ELSE ranked

InitD ==
    /\ dpc = "idle"
    /\ dlimit = 0
    /\ dnext = 1
    /\ draw = <<>>
    /\ dbest = <<>>
    /\ dranked = <<>>
    /\ dqueue = <<>>
    /\ dreturned = -1
    /\ dfailed = {}

\* run_discovery_once is called (by main or by the scheduler).
BeginSweep ==
    /\ dpc = "idle"
    /\ dlimit' \in 0..MaxItems
    /\ dpc' = "collect"
    /\ UNCHANGED <<dnext, draw, dbest, dranked, dqueue, dreturned, dfailed>>

\* Lines 39-46: the provider returns its candidates.
ProviderReturns ==
    /\ dpc = "collect"
    /\ dnext <= Len(Providers)
    /\ \E n \in 0..MaxItems : \E items \in [1..n -> CandidateGrid] :
          draw' = draw \o items
    /\ dnext' = dnext + 1
    /\ UNCHANGED <<dpc, dlimit, dbest, dranked, dqueue, dreturned, dfailed>>

\* A bug: the exception of a provider leaves run_discovery_once
ProviderRaises_Propagates ==
    /\ dpc = "collect"
    /\ dnext <= Len(Providers)
    /\ dpc' = "raised"
    /\ dfailed' = dfailed \cup {Providers[dnext]}
    /\ UNCHANGED <<dlimit, dnext, draw, dbest, dranked, dqueue, dreturned>>

\* Lines 43-45: the provider raises; it is logged and skipped.
ProviderRaises ==
    /\ dpc = "collect"
    /\ dnext <= Len(Providers)
    /\ dnext' = dnext + 1
    /\ dfailed' = dfailed \cup {Providers[dnext]}
    /\ UNCHANGED <<dpc, dlimit, draw, dbest, dranked, dqueue, dreturned>>

\* Lines 48-60
Dedupe ==
    /\ dpc = "collect"
    /\ dnext > Len(Providers)
    /\ dbest' = BestByKey(<<>>, draw)
    /\ dpc' = "rank"
    /\ UNCHANGED <<dlimit, dnext, draw, dranked, dqueue, dreturned, dfailed>>

\* Lines 62-68
Rank ==
    /\ dpc = "rank"
    /\ dranked' = RankCandidates(dbest, dlimit)
    /\ dpc' = "enqueue"
    /\ UNCHANGED <<dlimit, dnext, draw, dbest, dqueue, dreturned, dfailed>>

\* Lines 71-83: one enqueue_video; an exception of the broker client
\* leaves run_discovery_once.
EnqueueOne ==
    /\ dpc = "enqueue"
    /\ Len(dqueue) < Len(dranked)
    /\ \E sent \in BOOLEAN :
        IF sent
        THEN /\ dqueue' = Append(dqueue, dranked[Len(dqueue) + 1])
             /\ UNCHANGED dpc
        ELSE /\ dpc' = "raised"
             /\ UNCHANGED dqueue
    /\ UNCHANGED <<dlimit, dnext, draw, dbest, dranked, dreturned, dfailed>>

\* Line 85
ReturnEnqueued ==
    /\ dpc = "enqueue"
    /\ Len(dqueue) = Len(dranked)
    /\ dreturned' = Len(dqueue)
    /\ dpc' = "returned"
    /\ UNCHANGED <<dlimit, dnext, draw, dbest, dranked, dqueue, dfailed>>

\* ------------------------------------------------------------------------
\* Part VI: _upsert_results and get_conn, on the rows themselves.  A table
\* is the set of its rows; "null" stands for NULL and None; timestamps are
\* the numbers of the calls.
\* ------------------------------------------------------------------------

\* Arguments of _upsert_results; process_video passes its url as source_url,
\* which the resolver has accepted as a string.
RecordGrid ==
    { [platform |-> "youtube", video_id |-> "a", label |-> "verified",
       title |-> "t1", source_url |-> "u1"],
      [platform |-> "youtube", video_id |-> "a", label |-> "ai-detected",
       title |-> "null", source_url |-> "u2"],
      [platform |-> "youtube", video_id |-> "a", label |-> "suspicious",
       title |-> "t2", source_url |-> "u1"],
      [platform |-> "youtube", video_id |-> "b", label |-> "verified",
       title |-> "null", source_url |-> "u1"] }

\* COALESCE(a, b)
Coalesce(a, b) == IF a # "null" THEN a ELSE b

\* The rows of a table that ON CONFLICT (platform, video_id) meets
Conflicting(table, row) ==
    {r \in table : r.platform = row.platform /\ r.video_id = row.video_id}

\* A bug: first_seen_at is among the columns of DO UPDATE SET
UpsertVideosRow_ResetFirstSeen(table, rec, now) ==
    LET new == [platform |-> rec.platform, video_id |-> rec.video_id,
                first_seen_at |-> now, last_seen_at |-> now,
                title |-> rec.title, source_url |-> rec.source_url]
        old == Conflicting(table, new)
    IN  IF old = {} THEN table \cup {new}
        ELSE (table \ old) \cup
             { [r EXCEPT !.first_seen_at = new.first_seen_at,
                         !.last_seen_at = new.last_seen_at,
                         !.title = Coalesce(new.title, r.title),
                         !.source_url = Coalesce(new.source_url, r.source_url)]
               : r \in old }

\* Lines 999-1036: INSERT INTO videos ... ON CONFLICT ... DO UPDATE SET
UpsertVideosRow(table, rec, now) ==
    LET new == [platform |-> rec.platform, video_id |-> rec.video_id,
                first_seen_at |-> now, last_seen_at |-> now,
                title |-> rec.title, source_url |-> rec.source_url]
        old == Conflicting(table, new)
    IN  IF old = {} THEN table \cup {new}
        ELSE (table \ old) \cup
             { [r EXCEPT !.last_seen_at = new.last_seen_at,
                         !.title = Coalesce(new.title, r.title),
                         !.source_url = Coalesce(new.source_url, r.source_url)]
               : r \in old }

\* Lines 1038-1072: INSERT INTO analyses ... ON CONFLICT ... DO UPDATE SET
UpsertAnalysesRow(table, rec, now) ==
    LET new == [platform |-> rec.platform, video_id |-> rec.video_id,
                analyzed_at |-> now, label |-> rec.label,
                source_url |-> rec.source_url]
        old == Conflicting(table, new)
    IN  IF old = {} THEN table \cup {new}
        ELSE (table \ old) \cup
             { [r EXCEPT !.analyzed_at = new.analyzed_at,
                         !.label = new.label,
                         !.source_url = Coalesce(new.source_url, r.source_url)]
               : r \in old }

\* A bug: a connection in autocommit mode
AfterExecute_Autocommit(committed, written) == written

\* What the table holds for other connections after cur.execute() inside a
\* transaction: what was committed before.
AfterExecute(committed, written) == committed

InitU ==
    /\ upc = "idle"
    /\ urec = CHOOSE r \in RecordGrid : TRUE
    /\ unow = 0
    /\ utxVideos = {}
    /\ utxAnalyses = {}
    /\ uvideos = {}
    /\ uanalyses = {}

\* Lines 963-997: the call; now is taken, get_conn opens the connection.
\* psycopg.connect may raise.
BeginUpsert ==
    /\ upc \in {"idle", "committed", "failed"}
    /\ unow < MaxWrites
    /\ unow' = unow + 1
    /\ urec' \in RecordGrid
    /\ \E connected \in BOOLEAN :
          upc' = IF connected THEN "connected" ELSE "failed"
    /\ utxVideos' = uvideos
    /\ utxAnalyses' = uanalyses
    /\ UNCHANGED <<uvideos, uanalyses>>

\* Lines 999-1036; an error leaves through get_conn's finally: conn.close()
\* discards the open transaction.
ExecuteVideos ==
    /\ upc = "connected"
    /\ \E ok \in BOOLEAN :
        IF ok
        THEN /\ utxVideos' = UpsertVideosRow(utxVideos, urec, unow)
             /\ uvideos' = AfterExecute(uvideos, utxVideos')
             /\ upc' = "videos_done"
        ELSE /\ upc' = "failed"
             /\ UNCHANGED <<utxVideos, uvideos>>
    /\ UNCHANGED <<urec, unow, utxAnalyses, uanalyses>>

\* Lines 1038-1072
ExecuteAnalyses ==
    /\ upc = "videos_done"
    /\ \E ok \in BOOLEAN :
        IF ok
        THEN /\ utxAnalyses' = UpsertAnalysesRow(utxAnalyses, urec, unow)
             /\ uanalyses' = AfterExecute(uanalyses, utxAnalyses')
             /\ upc' = "analyses_done"
        ELSE /\ upc' = "failed"
             /\ UNCHANGED <<utxAnalyses, uanalyses>>
    /\ UNCHANGED <<urec, unow, utxVideos, uvideos>>

\* Line 1073: conn.commit() makes both writes durable, or fails with none.
Commit ==
    /\ upc = "analyses_done"
    /\ \E ok \in BOOLEAN :
        IF ok
        THEN /\ uvideos' = utxVideos
             /\ uanalyses' = utxAnalyses
             /\ upc' = "committed"
        ELSE /\ upc' = "failed"
             /\ UNCHANGED <<uvideos, uanalyses>>
    /\ UNCHANGED <<urec, unow, utxVideos, utxAnalyses>>

\* The worker dies inside the with block: the server rolls back.
CrashInUpsert ==
    /\ upc \in {"connected", "videos_done", "analyses_done"}
    /\ upc' = "failed"
    /\ UNCHANGED <<urec, unow, utxVideos, utxAnalyses, uvideos, uanalyses>>

\* ------------------------------------------------------------------------
\* Part VII: POST /analyze of the resolver (analyze, _call_inference) and
\* the invocations of process_video that call it.  Request q is the POST of
\* invocation q.  A step of the resolver lasts either no time or up to its
\* timeout; calls without a timeout are taken to return at once here.
\* ------------------------------------------------------------------------
Requests == 1..MaxRequests

Running == {"probe", "fast", "fallbackA", "fallbackB", "fallbackC", "infer"}

\* The caller's requests.post(..., timeout=frame_extract_timeout + 30)
Deadline == FrameExtractTimeout + ResolverBuffer

\* The timeout of the blocking call of each step of the resolver
StepTimeout(step) ==
    IF step = "probe" THEN ProbeTimeout
    ELSE IF step = "infer" THEN InferPostTimeout
    ELSE FrameExtractTimeout

NoResponse == [http |-> 0]

OkResponse(n) ==
    [http |-> 200, success |-> TRUE, frames_count |-> n, error |-> "none"]

\* A bug: no except clause in analyze, the framework answers 500
ErrorResponse_Http500(msg) ==
    [http |-> 500, success |-> FALSE, frames_count |-> 0, error |-> msg]

\* `except Exception as e: return AnalysisResponse(success=False, error=str(e))`
ErrorResponse(msg) ==
    [http |-> 200, success |-> FALSE, frames_count |-> 0, error |-> msg]

\* What the resolver's _call_inference does with the outcome of its POST:
\* every exception (HTTPError of raise_for_status, a transport error, a body
\* that is not JSON) becomes RuntimeError("Inference failed: ...").
InferenceRaises(outcome) ==
    IF outcome \in {"ok", "not_object"} THEN "none" ELSE "inference_failed"

\* A bug: the POST wrapped in a retry on every exception, as the unused
\* _call_inference of tasks/analyzer.py is
RetryInference_OnAnyException(outcome, posts) ==
    InferenceRaises(outcome) # "none" /\ posts < StopAfterAttempt

\* The resolver's _call_inference has no loop: one POST for each call.
RetryInference(outcome, posts) == FALSE

\* The end of analyze: AnalysisResponse(success=True, inference=..., ...)
\* fails validation when the inference body is not a JSON object.
AnalyzeReturn(raisedMsg, inference, nframes) ==
    IF raisedMsg # "none" THEN ErrorResponse(raisedMsg)
    ELSE IF inference = "not_object" THEN ErrorResponse("validation_error")
    ELSE OkResponse(nframes)

InitZ ==
    /\ jpc = [q \in Requests |-> "idle"]
    /\ jkey = 0
    /\ zpc = [q \in Requests |-> "none"]
    /\ zclock = [q \in Requests |-> 0]
    /\ zframes = [q \in Requests |-> 0]
    /\ zposts = [q \in Requests |-> 0]
    /\ zlast = [q \in Requests |-> "none"]
    /\ zraised = [q \in Requests |-> "none"]
    /\ zresp = [q \in Requests |-> NoResponse]

\* process_video lines 46-73: SET NX EX, then the POST to the resolver; a
\* connection error raises at once and the handler deletes the claim.
JobStart(q) ==
    /\ jpc[q] = "idle"
    /\ \A o \in Requests : o < q => jpc[o] # "idle"
    /\ LET r == RedisSetNxEx(jkey, IdempotencyTTL)
       IN  IF ~r.acquired
           THEN /\ jpc' = [jpc EXCEPT ![q] = "skipped"]
                /\ UNCHANGED <<jkey, zpc>>
           ELSE \E connected \in BOOLEAN :
                  IF connected
                  THEN /\ jpc' = [jpc EXCEPT ![q] = "waiting"]
                       /\ jkey' = r.ttl
                       /\ zpc' = [zpc EXCEPT ![q] = "probe"]
                  ELSE /\ jpc' = [jpc EXCEPT ![q] = "failed"]
                       /\ jkey' = RedisDelete(r.ttl)
                       /\ UNCHANGED zpc
    /\ UNCHANGED <<zclock, zframes, zposts, zlast, zraised, zresp>>

\* A step of the resolver for request q that lasts d: it ends before the
\* caller's deadline if the caller is still waiting, after it if the caller
\* gave up during the step; `to` is where the resolver is after the step.
\* The clock is cleared when analyze returns.
Lasts(q, d, to) ==
    /\ jpc[q] = "waiting" => zclock[q] + d <= Deadline
    /\ jpc[q] = "timed_out" => zclock[q] + d > Deadline
    /\ zclock' = [zclock EXCEPT ![q] =
                     IF to = "done" THEN 0 ELSE Min(@ + d, Deadline + 1)]

\* _probe_duration: every failure, the timeout included, gives 16.0.
Probe(q) ==
    /\ zpc[q] = "probe"
    /\ \E d \in {0, StepTimeout("probe")} : Lasts(q, d, "fast")
    /\ zpc' = [zpc EXCEPT ![q] = "fast"]
    /\ UNCHANGED <<jpc, jkey, zframes, zposts, zlast, zraised, zresp>>

\* One stage of _extract_frames, then what the driver does with its report;
\* after the last stage or an exception analyze answers at once.
ExtractStage(q) ==
    /\ zpc[q] \in {"fast", "fallbackA", "fallbackB", "fallbackC"}
    /\ \E d \in {0, StepTimeout(zpc[q])},
          report \in IF zpc[q] \in {"fast", "fallbackA"}
                     THEN {"ok", "fail", "raise"} ELSE {"ok", "fail"},
          n \in 1..MaxTargetFrames :
        LET to == NextAfter(zpc[q], report)
            msg == IF report = "raise" THEN "stage_raised"
                                       ELSE "extraction_failed"
        IN  /\ Lasts(q, d, IF to = "read" THEN "infer"
                            ELSE IF to = "raised" THEN "done" ELSE to)
            /\ n > 1 => report = "ok"
            /\ IF to = "read"
               THEN /\ zframes' = [zframes EXCEPT ![q] = n]
                    /\ zpc' = [zpc EXCEPT ![q] = "infer"]
                    /\ UNCHANGED <<zraised, zresp>>
               ELSE IF to = "raised"
               THEN /\ zraised' = [zraised EXCEPT ![q] = msg]
                    /\ zresp' = [zresp EXCEPT ![q] =
                                   AnalyzeReturn(msg, "none", 0)]
                    /\ zpc' = [zpc EXCEPT ![q] = "done"]
                    /\ UNCHANGED zframes
               ELSE /\ zpc' = [zpc EXCEPT ![q] = to]
                    /\ UNCHANGED <<zframes, zraised, zresp>>
    /\ UNCHANGED <<jpc, jkey, zposts, zlast>>

\* The resolver's _call_inference and the rest of analyze.
CallInference(q) ==
    /\ zpc[q] = "infer"
    /\ \E d \in {0, StepTimeout("infer")},
          outcome \in {"ok", "not_object", "4xx", "5xx", "network"} :
        LET posts == zposts[q] + 1
            msg == InferenceRaises(outcome)
        IN  /\ Lasts(q, d, IF RetryInference(outcome, posts) THEN "infer"
                                                               ELSE "done")
            /\ d = StepTimeout("infer") => outcome = "network"
            /\ zposts' = [zposts EXCEPT ![q] = posts]
            /\ zlast' = [zlast EXCEPT ![q] = outcome]
            /\ IF RetryInference(outcome, posts)
               THEN UNCHANGED <<zpc, zraised, zresp>>
               ELSE /\ zraised' = [zraised EXCEPT ![q] = msg]
                    /\ zresp' = [zresp EXCEPT ![q] =
                                   AnalyzeReturn(msg, outcome, zframes[q])]
                    /\ zpc' = [zpc EXCEPT ![q] = "done"]
    /\ UNCHANGED <<jpc, jkey, zframes>>

\* process_video lines 74-87 and 140-143: the response arrives in time;
\* an error status or success = false raises, and the handler deletes the
\* claim.
JobReceive(q) ==
    /\ jpc[q] = "waiting"
    /\ zpc[q] = "done"
    /\ IF zresp[q].http = 200 /\ zresp[q].success
       THEN /\ jpc' = [jpc EXCEPT ![q] = "resolved"]
            /\ UNCHANGED jkey
       ELSE /\ jpc' = [jpc EXCEPT ![q] = "failed"]
            /\ jkey' = RedisDelete(jkey)
    /\ UNCHANGED <<zpc, zclock, zframes, zposts, zlast, zraised, zresp>>

\* process_video lines 72, 85-87 and 140-143: no response within the
\* timeout of requests.post (the step the resolver is in may last beyond
\* the deadline): ReadTimeout, RuntimeError, and the handler deletes the
\* claim.  Nothing is sent to the resolver, whose thread goes on.
JobTimeout(q) ==
    /\ jpc[q] = "waiting"
    /\ zpc[q] \in Running
    /\ zclock[q] + StepTimeout(zpc[q]) > Deadline
    /\ jpc' = [jpc EXCEPT ![q] = "timed_out"]
    /\ jkey' = RedisDelete(jkey)
    /\ UNCHANGED <<zpc, zclock, zframes, zposts, zlast, zraised, zresp>>

\* ------------------------------------------------------------------------
\* Part VIII: run_discovery_job.  The task is declared with
\* autoretry_for=(RuntimeError,) and retry_kwargs={"max_retries": ...}, and
\* its body calls self.retry itself; Task.retry and the autoretry wrapper
\* are Celery's.
\* ------------------------------------------------------------------------

\* A bug: the parameter's default, raise_on_failure=False
RaiseOnFailure_Default == FALSE

\* _check_inference_health(raise_on_failure=True) at line 62
RaiseOnFailure == TRUE

\* _check_inference_health: True, False, or RuntimeError.
CheckInferenceHealth(healthy, raiseOnFailure) ==
    IF healthy THEN "true"
    ELSE IF raiseOnFailure THEN "raise" ELSE "false"

\* Task.retry on an execution whose request.retries is `retries`: beyond
\* maxRetries it raises exc, otherwise it re-queues the task with
\* retries + 1 and raises Retry.
TaskRetry(retries, maxRetries) ==
    IF retries + 1 > maxRetries THEN "raise_exc" ELSE "requeued"

\* What a failed health check leads to, lines 63-68 and the decorator: the
\* body's self.retry names no max_retries and goes by the task's own; the
\* RuntimeError it raises when that is exhausted is caught by the autoretry
\* wrapper, which calls Task.retry again with retry_kwargs and no countdown.
RetryDecision(retries, configured) ==
    IF TaskRetry(retries, TaskMaxRetries) = "requeued"
    THEN [again |-> TRUE, delay |-> "discovery_retry_delay_seconds"]
    ELSE IF TaskRetry(retries, configured) = "requeued"
    THEN [again |-> TRUE, delay |-> "default_retry_delay"]
    ELSE [again |-> FALSE, delay |-> "none"]

InitS ==
    /\ spc = "idle"
    /\ smax = 0
    /\ sretries = 0
    /\ sexecs = 0
    /\ shealth = "none"
    /\ sswept = FALSE
    /\ sdelay = "none"
    /\ senqueued = 0

\* The beat schedule fires run_discovery_job, on a worker configured with
\* some DISCOVERY_MAX_RETRIES.
Fire ==
    /\ spc \in {"idle", "returned", "failed", "gave_up"}
    /\ \E m \in 0..MaxConfiguredRetries : smax' = m
    /\ spc' = "queued"
    /\ sretries' = 0
    /\ sexecs' = 0
    /\ shealth' = "none"
    /\ sswept' = FALSE
    /\ sdelay' = "none"
    /\ senqueued' = 0

\* One execution of run_discovery_job: the health check, then either the
\* retry or the sweep (which returns its count, or raises after it has
\* enqueued some of the videos).
Execute ==
    /\ spc = "queued"
    /\ sexecs' = sexecs + 1
    /\ \E healthy \in BOOLEAN :
        LET check == CheckInferenceHealth(healthy, RaiseOnFailure)
            retry == RetryDecision(sretries, smax)
        IN  /\ shealth' = IF healthy THEN "ok" ELSE "failed"
            /\ IF check = "raise"
               THEN /\ sswept' = FALSE
                    /\ spc' = IF retry.again THEN "queued" ELSE "gave_up"
                    /\ sretries' = IF retry.again THEN sretries + 1 ELSE sretries
                    /\ sdelay' = retry.delay
                    /\ UNCHANGED senqueued
               ELSE /\ sswept' = TRUE
                    /\ \E n \in 0..MaxItems, completes \in BOOLEAN :
                          /\ senqueued' = senqueued + n
                          /\ spc' = IF completes THEN "returned" ELSE "failed"
                    /\ sdelay' = "none"
                    /\ UNCHANGED sretries
    /\ UNCHANGED smax

\* ------------------------------------------------------------------------
\* Part IX: discover_since and _sweep_region of the YouTube provider.  An
\* item of videos.list is modelled by its id ("" when it has none) and by
\* the value _compute_views_per_hour gives it.
\* ------------------------------------------------------------------------

\* YOUTUBE_MAX_PAGES_PER_SWEEP (its default) and YOUTUBE_TOP_PER_REGION
MaxPagesPerSweep == 2

TopPerRegion == 3

\* REGIONS
Regions == <<"US", "GB">>

ItemGrid ==
    { [id |-> "a", views_per_hour |-> 2],
      [id |-> "b", views_per_hour |-> 1],
      [id |-> "", views_per_hour |-> 3] }

\* The items one call of _fetch_shorts_page can return
PageGrid ==
    {<<>>} \cup [1..1 -> ItemGrid] \cup
    { <<[id |-> "b", views_per_hour |-> 1], [id |-> "a", views_per_hour |-> 2]>>,
      <<[id |-> "", views_per_hour |-> 3], [id |-> "a", views_per_hour |-> 2]>> }

\* What one call of _fetch_shorts_page can do: search.list or videos.list
\* answers 401 or 403 (RuntimeError); an answer fails raise_for_status
\* (requests.HTTPError); no item; some items.
FetchOutcomes == {"search_auth", "videos_auth", "http_error", "empty", "items"}

\* A bug: the RuntimeError of a 401 or 403 is not caught by _sweep_region
AfterFetch_AuthPropagates(outcome, token) ==
    IF outcome \in {"http_error", "search_auth", "videos_auth"} THEN "raised"
    ELSE IF outcome = "empty" THEN "break"
    ELSE IF ~token THEN "break"
    ELSE "sweep"

\* Lines 105-123: where the body of the while loop goes after the fetch
AfterFetch(outcome, token) ==
    IF outcome = "http_error" THEN "raised"
    ELSE IF outcome \in {"search_auth", "videos_auth"} THEN "break"
    ELSE IF outcome = "empty" THEN "break"
    ELSE IF ~token THEN "break"
    ELSE "sweep"

\* Line 104: the condition of the while loop
SweepGoesOn(pages, items) ==
    pages < MaxPagesPerSweep /\ Len(items) < TopPerRegion

RECURSIVE BuildCandidates(_, _, _)
\* Lines 77-88 of discover_since: items without id and (region, id) seen
\* before are skipped
BuildCandidates(cands, items, region) ==
    IF items = <<>> THEN cands
    ELSE LET item == Head(items)
             seen == \E i \in DOMAIN cands :
                        cands[i].region = region /\ cands[i].video_id = item.id
         IN  IF item.id = "" \/ seen
             THEN BuildCandidates(cands, Tail(items), region)
             ELSE BuildCandidates(
                      Append(cands, [platform |-> "youtube", video_id |-> item.id,
                                     region |-> region,
                                     views_per_hour |-> item.views_per_hour]),
                      Tail(items), region)

InitY ==
    /\ ypc = "idle"
    /\ ylimit = 0
    /\ yregion = 1
    /\ ypages = 0
    /\ yitems = <<>>
    /\ yfetched = 0
    /\ yauth = {}
    /\ ykept = [r \in {Regions[i] : i \in DOMAIN Regions} |-> 0]
    /\ ycands = <<>>

\* discover_since is called with a limit.
BeginDiscover ==
    /\ ypc = "idle"
    /\ ylimit' \in {0, 2}
    /\ ypc' = "sweep"
    /\ UNCHANGED <<yregion, ypages, yitems, yfetched, yauth, ykept, ycands>>

\* One round of the while loop of _sweep_region (lines 104-126).
FetchPage ==
    /\ ypc = "sweep"
    /\ SweepGoesOn(ypages, yitems)
    /\ \E outcome \in FetchOutcomes, token \in BOOLEAN, page \in PageGrid \ {<<>>} :
          /\ yfetched' = yfetched + 1
          /\ ypc' = AfterFetch(outcome, token)
          /\ yauth' = IF outcome \in {"search_auth", "videos_auth"}
                      THEN yauth \cup {Regions[yregion]} ELSE yauth
          /\ IF outcome = "items"
             THEN /\ yitems' = yitems \o page
                  /\ ypages' = ypages + 1
             ELSE UNCHANGED <<yitems, ypages>>
    /\ UNCHANGED <<ylimit, yregion, ykept, ycands>>

\* Lines 128-133 of _sweep_region, then lines 77-88 of discover_since for
\* the region and, after the last region, its lines 90-96.
FinishRegion ==
    /\ ypc = "break" \/ (ypc = "sweep" /\ ~SweepGoesOn(ypages, yitems))
    /\ LET region_items == Take(SortedByViews(<<>>, yitems), TopPerRegion)
           candidates == BuildCandidates(ycands, region_items, Regions[yregion])
       IN  /\ ykept' = [ykept EXCEPT ![Regions[yregion]] = Len(region_items)]
           /\ IF yregion < Len(Regions)
              THEN /\ ycands' = candidates
                   /\ yregion' = yregion + 1
                   /\ ypc' = "sweep"
              ELSE /\ ycands' = RankCandidates(candidates, ylimit)
                   /\ ypc' = "returned"
                   /\ UNCHANGED yregion
    /\ ypages' = 0
    /\ yitems' = <<>>
    /\ yfetched' = 0
    /\ UNCHANGED <<ylimit, yauth>>

\* ------------------------------------------------------------------------
\* Part X: the duration probe and the sampling rate of the resolver.  The
\* output of yt-dlp --get-duration is modelled by its parts between colons;
\* a part is an integer literal, a decimal literal or not a number, and its
\* value is kept in tenths.  Durations are in tenths of a second.
\* ------------------------------------------------------------------------

\* `return 16.0` of _probe_duration, in seconds
DefaultDuration == 16

\* target_frames of the requests considered (16 is the default)
TargetGrid == {1, 4, 8, 16, 17, 32}

IntPart(n) == [kind |-> "int", tenths |-> 10 * n]

DecPart(t) == [kind |-> "dec", tenths |-> t]

BadPart == [kind |-> "bad", tenths |-> 0]

\* What subprocess.run of the probe gives: an exception (timeout, yt-dlp
\* missing) or the stdout, stripped and split at ":" ("" splits into one
\* empty part)
ProbeGrid ==
    { [raised |-> TRUE, parts |-> <<>>],
      [raised |-> FALSE, parts |-> <<BadPart>>],
      [raised |-> FALSE, parts |-> <<IntPart(8)>>],
      [raised |-> FALSE, parts |-> <<DecPart(75)>>],
      [raised |-> FALSE, parts |-> <<IntPart(0)>>],
      [raised |-> FALSE, parts |-> <<IntPart(0), IntPart(16)>>],
      [raised |-> FALSE, parts |-> <<IntPart(1), DecPart(5)>>],
      [raised |-> FALSE, parts |-> <<DecPart(15), IntPart(0)>>],
      [raised |-> FALSE, parts |-> <<IntPart(1), IntPart(0), IntPart(0)>>],
      [raised |-> FALSE, parts |-> <<IntPart(0), BadPart, IntPart(1)>>] }

\* int(s) and float(s) of a part: -1 stands for ValueError
IntOf(part) == IF part.kind = "int" THEN part.tenths \div 10 ELSE -1

FloatOf(part) == IF part.kind = "bad" THEN -1 ELSE part.tenths

\* _probe_duration(url): the duration in tenths of a second
ProbeDuration(probe) ==
    LET parts == probe.parts
        default == 10 * DefaultDuration
    IN  IF probe.raised THEN default
        ELSE IF Len(parts) = 3
        THEN IF IntOf(parts[1]) < 0 \/ IntOf(parts[2]) < 0 \/ FloatOf(parts[3]) < 0
             THEN default
             ELSE 36000 * IntOf(parts[1]) + 600 * IntOf(parts[2]) + FloatOf(parts[3])
        ELSE IF Len(parts) = 2
        THEN IF IntOf(parts[1]) < 0 \/ FloatOf(parts[2]) < 0
             THEN default
             ELSE 600 * IntOf(parts[1]) + FloatOf(parts[2])
        ELSE IF FloatOf(parts[1]) < 0 THEN default ELSE FloatOf(parts[1])

\* _compute_fps(duration, target_frames), as a fraction
ComputeFps(duration, target_frames) ==
    IF duration <= 0 THEN [num |-> 1, den |-> 1]
    ELSE [num |-> 10 * target_frames, den |-> duration]

InitF ==
    /\ fpc = "idle"
    /\ ftarget = 16
    /\ fprobe = [raised |-> TRUE, parts |-> <<>>]
    /\ fduration = 0
    /\ ffps = [num |-> 1, den |-> 1]

\* _extract_frames(url, target_frames, ...) line 333: the probe.
ProbeVideo ==
    /\ fpc = "idle"
    /\ \E t \in TargetGrid, p \in ProbeGrid :
          /\ ftarget' = t
          /\ fprobe' = p
          /\ fduration' = ProbeDuration(p)
    /\ fpc' = "probed"
    /\ UNCHANGED ffps

\* _build_ffmpeg_command(duration, target_frames, output_pattern)
BuildFfmpegCommand ==
    /\ fpc = "probed"
    /\ ffps' = ComputeFps(fduration, ftarget)
    /\ fpc' = "built"
    /\ UNCHANGED <<ftarget, fprobe, fduration>>

\* ------------------------------------------------------------------------
\* Part XI: process_deep_scan_job (deep_scan/tasks.py).  Confidences are in
\* hundredths; a record of result "none" stands for None.
\* ------------------------------------------------------------------------

\* client_hints of the payload
HintGrid ==
    { [result |-> "none", confidence |-> 0],
      [result |-> "ai-detected", confidence |-> 90],
      [result |-> "ai-detected", confidence |-> 30],
      [result |-> "suspicious", confidence |-> 70],
      [result |-> "verified", confidence |-> 50] }

\* What check_heuristics answers (None when there is nothing to check)
HeuristicsGrid ==
    { [result |-> "none", confidence |-> 0],
      [result |-> "ai-detected", confidence |-> 70],
      [result |-> "verified", confidence |-> 30] }

\* What _call_gemini does: it raises (the call, an empty text, or the parse
\* of both the answer and the repaired answer), or returns the payload
\* parsed from the answer or from the repaired answer.  A parsed payload
\* has a key "frames", possibly with an empty list.
GeminiGrid ==
    { [call |-> "failed", frames |-> <<>>],
      [call |-> "ok", frames |-> <<>>],
      [call |-> "ok", frames |-> <<[verdict |-> "real", confidence |-> 80]>>],
      [call |-> "repaired",
       frames |-> <<[verdict |-> "ai-detected", confidence |-> 90],
                    [verdict |-> "real", confidence |-> 60]>>],
      [call |-> "ok",
       frames |-> <<[verdict |-> "suspicious", confidence |-> 40],
                    [verdict |-> "suspicious", confidence |-> 60]>>] }

\* frame_dir of the payload: absent, a path that does not exist, a
\* directory without frame files, a directory with frames
FrameDirGrid == {"none", "missing", "empty", "frames"}

\* Lines 478-481: the payload that replaces a failed _call_gemini
GeminiPayload(gemini) ==
    IF gemini.call = "failed" THEN <<>> ELSE gemini.frames

\* Lines 323-325: _aggregate_gemini raises ValueError
AggregateRaises(frames) == frames = <<>>

\* Lines 356-364 of _aggregate_gemini, for a non-empty list of normalized
\* frames: the verdict with most frames, ties broken by precedence, the
\* mean confidence of its frames (rounded down to hundredths), mapped to
\* the external label
AggregateGemini(frames) ==
    LET count(v) == Cardinality({i \in DOMAIN frames : frames[i].verdict = v})
        precedence(v) == IF v = "ai-detected" THEN 2
                         ELSE IF v = "suspicious" THEN 1 ELSE 0
        verdicts == {frames[i].verdict : i \in DOMAIN frames}
        chosen == CHOOSE v \in verdicts :
                      \A o \in verdicts :
                          \/ count(v) > count(o)
                          \/ count(v) = count(o) /\ precedence(v) >= precedence(o)
        confs == SelectSeq(frames, LAMBDA f : f.verdict = chosen)
    IN  [label |-> IF chosen = "real" THEN "verified" ELSE chosen,
         confidence |-> SumSeq([i \in DOMAIN confs |-> confs[i].confidence])
                            \div Len(confs),
         reason |-> "gemini: model_vote"]

\* A bug: the fallback is the neutral verdict
FallbackAggregate_Verified ==
    [label |-> "verified", confidence |-> 50, reason |-> "gemini:parse_fallback"]

\* Lines 494-507: the aggregate that replaces a failed _aggregate_gemini
FallbackAggregate ==
    [label |-> "suspicious", confidence |-> 55, reason |-> "gemini:parse_fallback"]

\* _apply_heuristics(aggregate, heuristics_result, client_hints): label and
\* confidence
ApplyHeuristics(aggregate, heuristics, hints) ==
    LET c1 == IF /\ heuristics.result = "ai-detected"
                 /\ aggregate.label = "ai-detected"
              THEN Max(aggregate.confidence, heuristics.confidence)
              ELSE aggregate.confidence
        merged ==
            IF hints.result = "none"
            THEN [label |-> aggregate.label, confidence |-> c1]
            ELSE IF hints.result = "ai-detected"
            THEN [label |-> "ai-detected", confidence |-> Max(c1, hints.confidence)]
            ELSE IF hints.result = "suspicious" /\ aggregate.label = "verified"
            THEN [label |-> "suspicious",
                  confidence |-> Max(c1, Max(hints.confidence, 60))]
            ELSE [label |-> aggregate.label, confidence |-> c1]
    IN  [label |-> merged.label,
         confidence |-> Min(Max(merged.confidence, 0), 100)]

\* The value _store_job_status writes
JobStatus(status, label, confidence, error) ==
    [status |-> status, label |-> label, confidence |-> confidence,
     error |-> error]

InitK ==
    /\ kpc = "idle"
    /\ kpayload = [ids |-> FALSE, frame_dir |-> "none",
                   client_hints |-> [result |-> "none", confidence |-> 0],
                   heuristics |-> [result |-> "none", confidence |-> 0],
                   gemini |-> [call |-> "failed", frames |-> <<>>]]
    /\ klock = "none"
    /\ kacquired = FALSE
    /\ kdir = FALSE
    /\ kstatus = JobStatus("none", "none", 0, "none")
    /\ kgemini = "none"

\* The API saves the frames of a request and queues its job; the lock of
\* the video may be held by another job.
SubmitJob ==
    /\ kpc = "idle"
    /\ \E ids \in BOOLEAN, dir \in FrameDirGrid, hints \in HintGrid,
          heuristics \in HeuristicsGrid, gemini \in GeminiGrid :
          /\ kpayload' = [ids |-> ids, frame_dir |-> dir, client_hints |-> hints,
                          heuristics |-> heuristics, gemini |-> gemini]
          /\ kdir' = (dir \in {"empty", "frames"})
    /\ klock' \in {"none", "other"}
    /\ kpc' = "queued"
    /\ UNCHANGED <<kacquired, kstatus, kgemini>>

\* Lines 436-452: the two early returns, or the lock is taken.
StartJob ==
    /\ kpc = "queued"
    /\ IF ~kpayload.ids
       THEN /\ kstatus' = JobStatus("failed", "none", 0, "Missing video_id or url")
            /\ kpc' = "returned"
            /\ UNCHANGED <<klock, kacquired>>
       ELSE IF klock # "none"
       THEN /\ kstatus' = JobStatus("failed", "none", 0, "duplicate_in_progress")
            /\ kpc' = "returned"
            /\ UNCHANGED <<klock, kacquired>>
       ELSE /\ klock' = "self"
            /\ kacquired' = TRUE
            /\ kstatus' = JobStatus("running", "none", 0, "none")
            /\ kpc' = "running"
    /\ UNCHANGED <<kpayload, kdir, kgemini>>

\* Lines 458-546: the body of the try statement, to the status done or to
\* the except clause.
AnalyseJob ==
    /\ kpc = "running"
    /\ IF kpayload.frame_dir # "frames"
       THEN /\ kstatus' = JobStatus("failed", "none", 0,
                              IF kpayload.frame_dir = "none"
                              THEN "Frame directory not provided in job payload"
                              ELSE IF kpayload.frame_dir = "missing"
                              THEN "Frame directory not found"
                              ELSE "No frames found")
            /\ kgemini' = "not_called"
            /\ kpc' = "failing"
       ELSE LET frames == GeminiPayload(kpayload.gemini)
                aggregate == IF AggregateRaises(frames)
                             THEN FallbackAggregate
                             ELSE AggregateGemini(frames)
                merged == ApplyHeuristics(aggregate, kpayload.heuristics,
                                          kpayload.client_hints)
            IN  /\ kstatus' = JobStatus("done", merged.label, merged.confidence,
                                        "none")
                /\ kgemini' = IF kpayload.gemini.call = "failed" THEN "call_failed"
                              ELSE IF AggregateRaises(frames)
                              THEN "aggregate_raised"
                              ELSE kpayload.gemini.call
                /\ kpc' = "finishing"
    /\ UNCHANGED <<kpayload, klock, kacquired, kdir>>

\* Lines 547-549: the finally clause; the exception of the except clause
\* is raised again after it.
FinallyCleanup ==
    /\ kpc \in {"finishing", "failing"}
    /\ kdir' = IF kpayload.frame_dir = "none" THEN kdir ELSE FALSE
    /\ klock' = "none"
    /\ kpc' = IF kpc = "finishing" THEN "returned" ELSE "raised"
    /\ UNCHANGED <<kpayload, kacquired, kstatus, kgemini>>

\* The lock was set with ex=redis_lock_ttl_seconds: it expires.
LockExpires ==
    /\ klock # "none"
    /\ kpc \in {"queued", "running", "finishing", "failing"}
    /\ klock' = "none"
    /\ UNCHANGED <<kpc, kpayload, kacquired, kdir, kstatus, kgemini>>

\* Line 448 of another job for the same video.
OtherJobLocks ==
    /\ klock = "none"
    /\ kpc \in {"queued", "running", "finishing", "failing"}
    /\ klock' = "other"
    /\ UNCHANGED <<kpc, kpayload, kacquired, kdir, kstatus, kgemini>>

Init ==
    InitA /\ InitX /\ InitR /\ InitG /\ InitD /\ InitU /\ InitZ /\ InitS /\ InitY /\ InitF /\ InitK

Next ==
    \/ \E w \in Workers, v \in Videos : Deliver(w, v) /\ UNCHANGED outsideA
    \/ \E w \in Workers : Claim(w) /\ UNCHANGED outsideA
    \/ \E w \in Workers : ResolverCall(w) /\ UNCHANGED outsideA
    \/ \E w \in Workers : Aggregate(w) /\ UNCHANGED outsideA
    \/ \E w \in Workers : UpsertResults(w) /\ UNCHANGED outsideA
    \/ \E w \in Workers : CacheResult(w) /\ UNCHANGED outsideA
    \/ \E w \in Workers : Stamp(w) /\ UNCHANGED outsideA
    \/ \E w \in Workers : HandlerDelete(w) /\ UNCHANGED outsideA
    \/ \E w \in Workers : Crash(w) /\ UNCHANGED outsideA
    \/ Tick /\ UNCHANGED outsideA

Spec == Init /\ [][Next]_vars

\* Time passes: Redis expires keys whatever the workers do.
SpecFair == Init /\ [][Next]_vars /\ WF_vars(Tick /\ UNCHANGED outsideA)

NextX ==
    \/ BeginExtract /\ UNCHANGED outsideX
    \/ StageFast /\ UNCHANGED outsideX
    \/ StageA /\ UNCHANGED outsideX
    \/ StageB /\ UNCHANGED outsideX
    \/ StageC /\ UNCHANGED outsideX
    \/ ReadFrames /\ UNCHANGED outsideX
    \/ CallHangs /\ UNCHANGED outsideX
    \/ LateAnswer /\ UNCHANGED outsideX

SpecExtract == Init /\ [][NextX]_vars

\* The resolver's thread keeps running: a stage whose calls return goes on
\* to report, and the read-back follows.  Nothing is assumed of the other
\* side of a call (LateAnswer).
ExtractProgress ==
    (StageFast \/ StageA \/ StageB \/ StageC \/ ReadFrames)
        /\ UNCHANGED outsideX

SpecExtractFair == Init /\ [][NextX]_vars /\ WF_vars(ExtractProgress)

NextR ==
    \/ ListDir /\ UNCHANGED outsideR
    \/ RaiseNoFiles /\ UNCHANGED outsideR
    \/ ReadOne /\ UNCHANGED outsideR
    \/ ReturnFrames /\ UNCHANGED outsideR

SpecRead == Init /\ [][NextR]_vars

NextG ==
    \/ ReceivePayload /\ UNCHANGED outsideG
    \/ RunAggregate /\ UNCHANGED outsideG

SpecAggregate == Init /\ [][NextG]_vars

NextD ==
    \/ BeginSweep /\ UNCHANGED outsideD
    \/ ProviderReturns /\ UNCHANGED outsideD
    \/ ProviderRaises /\ UNCHANGED outsideD
    \/ Dedupe /\ UNCHANGED outsideD
    \/ Rank /\ UNCHANGED outsideD
    \/ EnqueueOne /\ UNCHANGED outsideD
    \/ ReturnEnqueued /\ UNCHANGED outsideD

SpecDiscover == Init /\ [][NextD]_vars

NextU ==
    \/ BeginUpsert /\ UNCHANGED outsideU
    \/ ExecuteVideos /\ UNCHANGED outsideU
    \/ ExecuteAnalyses /\ UNCHANGED outsideU
    \/ Commit /\ UNCHANGED outsideU
    \/ CrashInUpsert /\ UNCHANGED outsideU

SpecUpsert == Init /\ [][NextU]_vars

NextZ ==
    \/ \E q \in Requests : JobStart(q) /\ UNCHANGED outsideZ
    \/ \E q \in Requests : Probe(q) /\ UNCHANGED outsideZ
    \/ \E q \in Requests : ExtractStage(q) /\ UNCHANGED outsideZ
    \/ \E q \in Requests : CallInference(q) /\ UNCHANGED outsideZ
    \/ \E q \in Requests : JobReceive(q) /\ UNCHANGED outsideZ
    \/ \E q \in Requests : JobTimeout(q) /\ UNCHANGED outsideZ

SpecResolver == Init /\ [][NextZ]_vars

NextS ==
    \/ Fire /\ UNCHANGED outsideS
    \/ Execute /\ UNCHANGED outsideS

SpecScheduler == Init /\ [][NextS]_vars

NextY ==
    \/ BeginDiscover /\ UNCHANGED outsideY
    \/ FetchPage /\ UNCHANGED outsideY
    \/ FinishRegion /\ UNCHANGED outsideY

SpecYoutube == Init /\ [][NextY]_vars

NextF ==
    \/ ProbeVideo /\ UNCHANGED outsideF
    \/ BuildFfmpegCommand /\ UNCHANGED outsideF

SpecFps == Init /\ [][NextF]_vars

NextK ==
    \/ SubmitJob /\ UNCHANGED outsideK
    \/ StartJob /\ UNCHANGED outsideK
    \/ AnalyseJob /\ UNCHANGED outsideK
    \/ FinallyCleanup /\ UNCHANGED outsideK
    \/ LockExpires /\ UNCHANGED outsideK
    \/ OtherJobLocks /\ UNCHANGED outsideK

SpecDeepScan == Init /\ [][NextK]_vars

\* ------------------------------------------------------------------------
\* Claims about process_video (specifications Spec and SpecFair)
\* ------------------------------------------------------------------------

\* C1: for every (platform, video_id), at any instant at most one
\* process_video invocation is between its successful SET NX and its
\* terminal EXPIRE or DELETE.
C1_AtMostOneHolder ==
    \A v \in Videos : Cardinality(Holders(v)) <= 1

\* C2: of two invocations for the same video that run concurrently, only one
\* does the work: an invocation whose SET arrives while another invocation
\* for the same video holds the claim does not acquire it (it makes no
\* resolver call and no DB write).
C2_ConcurrentArrivalSkips ==
    [][\A w \in Workers :
         (pc[w] = "start" /\ pc'[w] # "start" /\ Holders(vid[w]) # {})
            => pc'[w] # "claimed"]_vars

\* C3: after a successful invocation, no invocation for the same key whose
\* SET happens before the stamp TTL has elapsed acquires the claim.
C3_SkippedWithinStampTTL ==
    [][\A w \in Workers :
         (pc[w] = "start" /\ pc'[w] # "start" /\ sinceSuccess[vid[w]] < StampTTL)
            => pc'[w] # "claimed"]_vars

\* C4: an invocation that acquired the claim and then fails at a later step
\* (resolver call, aggregation, upsert, snapshot write or stamp) leaves with
\* the claim key absent; the case of Redis refusing the DELETE itself is
\* left out.
C4_FailureRemovesClaim ==
    [][\A w \in Workers :
         (pc[w] \in InFlightPc /\ pc'[w] = "failed" /\ raised'[w] # "delete")
            => dedupe'[vid[w]] = 0]_vars

\* C5: an invocation whose SET NX is not acquired returns and leaves the
\* dedup key (and its TTL), the snapshot and both tables as they were, and
\* has sent no resolver request and written no row.
C5_SkipChangesNothing ==
    [][\A w \in Workers :
         (pc[w] = "start" /\ pc'[w] = "skipped")
            => /\ dedupe' = dedupe
               /\ snapshot' = snapshot
               /\ videos' = videos
               /\ analyses' = analyses
               /\ ~calledResolver'[w]
               /\ ~wroteDb'[w]]_vars

\* C5 witness: an invocation was skipped on a key that is present.
C5_Witness ==
    \E w \in Workers : pc[w] = "skipped" /\ dedupe[vid[w]] # 0

\* C6: the upsert is committed before the snapshot is written: whenever a
\* snapshot exists the analyses row of that video exists, and an invocation
\* that has written its snapshot has committed its upsert.
C6_SnapshotImpliesRow ==
    /\ \A v \in Videos : snapshot[v] # 0 => (v \in analyses /\ v \in videos)
    /\ \A w \in Workers :
         pc[w] \in {"cached", "ok"} => (wroteDb[w] /\ vid[w] \in analyses)

\* C6 witness: a snapshot exists, beside its row.
C6_Witness ==
    \E v \in Videos : snapshot[v] # 0 /\ v \in analyses

\* C7: once the upsert is committed, an unavailable cache (at the snapshot
\* SET or at the stamp EXPIRE) does not make process_video raise.
C7_CacheFailureTolerated ==
    \A w \in Workers : wroteDb[w] => pc[w] \notin {"except", "failed"}

\* C8: after a crash of the claim's holder the key eventually disappears;
\* as long as the key is present no invocation acquires the claim, and an
\* invocation whose SET finds the key absent acquires it.
C8_CrashedClaimExpires ==
    /\ \A v \in Videos :
         (\E w \in Workers : pc[w] = "crashed" /\ vid[w] = v /\ dedupe[v] # 0)
            ~> (dedupe[v] = 0)
    /\ [][\A w \in Workers :
            (pc[w] = "start" /\ pc'[w] \in {"claimed", "skipped"})
               => (pc'[w] = "claimed" <=> dedupe[vid[w]] = 0)]_vars

\* C8 witness: a holder crashed and another invocation for the same video
\* has acquired the claim since.
C8_Witness ==
    \E w, w2 \in Workers :
        /\ w # w2
        /\ pc[w] = "crashed"
        /\ vid[w2] = vid[w]
        /\ pc[w2] = "claimed"

\* ------------------------------------------------------------------------
\* Claims about _extract_frames (specification SpecExtract)
\* ------------------------------------------------------------------------

\* C9: the stages are started in the order Fast, A, B, C; a stage is started
\* only if the stage before it reported failure, so none is started after a
\* stage reported success.
C9_LadderOrder ==
    /\ Len(xstarted) <= Len(Ladder)
    /\ Len(xreport) = Len(xstarted)
    /\ \A i \in 1..Len(xstarted) : xstarted[i] = Ladder[i]
    /\ \A i \in 1..(Len(xstarted) - 1) : xreport[i] = "fail"

\* C9 witness: Fast and A failed, B succeeded, C was never started.
C9_Witness ==
    /\ xpc = "returned"
    /\ xreport = <<"fail", "fail", "ok">>

\* C10: _extract_frames fails only after all four stages were attempted and
\* each reported failure.
C10_FailsOnlyAfterAllStages ==
    xpc = "raised" =>
        /\ Len(xstarted) = Len(Ladder)
        /\ \A i \in 1..Len(xreport) : xreport[i] = "fail"

\* C12: the temp dir of _extract_frames no longer exists once
\* _extract_frames has exited, whether it returned frames or raised (ladder
\* exhausted, no files after a success, exception out of a stage); it
\* exists while the stages and the read-back run.
C12_TmpDirRemovedOnExit ==
    /\ xpc \in {"returned", "raised"} => ~xtmpdir
    /\ xpc \in {"fast", "fallbackA", "fallbackB", "fallbackC", "read"} => xtmpdir

\* C12 witness: an exception left the second stage after the first stage
\* had run in the temp dir, and the temp dir is gone.
C12_Witness ==
    /\ xpc = "raised"
    /\ Len(xreport) = 2
    /\ xreport[2] = "raise"
    /\ ~xtmpdir

\* ------------------------------------------------------------------------
\* Claims about the read-back of the temp dir (specification SpecRead)
\* ------------------------------------------------------------------------

\* C11: whenever the read-back returns, the returned list has at least 1 and
\* at most target_frames frames and the frames are in ascending order of
\* their frame_NNN.jpg index.
C11_FramesBoundedAscending ==
    rpc = "returned" =>
        /\ 1 <= rcount
        /\ rcount <= rtarget
        /\ rascending

\* ------------------------------------------------------------------------
\* Claims about _aggregate and _decide_label (specification SpecAggregate)
\* ------------------------------------------------------------------------

\* The verdict that the decision rules of the specification give, stated on
\* the scores themselves: counts of frames at a threshold, the greatest sum
\* of three frames for top3_mean, "the lowest of the top-5 is >= 0.93" as
\* "five frames (all of them, if there are fewer) are >= 0.93".  needFive:
\* the third clause of rule 3 also asks for at least five frames.
RulesVerdict(results, keyword, needFive) ==
    LET n == Len(results)
        a(i) == results[i].artificial
        cnt(th) == Cardinality({i \in 1..n : a(i) >= th})
        maxA == CHOOSE m \in {a(i) : i \in 1..n} : \A i \in 1..n : a(i) <= m
        triples == {<<i, j, k>> \in (1..n) \X (1..n) \X (1..n) : i < j /\ j < k}
        top3sum == CHOOSE s \in {a(tr[1]) + a(tr[2]) + a(tr[3]) : tr \in triples} :
                       \A tr \in triples : a(tr[1]) + a(tr[2]) + a(tr[3]) <= s
        rule2 == \/ cnt(95) * 100 >= 35 * n
                 \/ (cnt(90) >= 4 /\ top3sum >= 3 * 94)
                 \/ cnt(90) * 100 >= 50 * n
        rule3 == \/ cnt(95) * 100 >= 60 * n
                 \/ (cnt(95) >= 6 /\ top3sum >= 3 * 97)
                 \/ (/\ cnt(90) * 100 >= 75 * n
                     /\ cnt(93) >= Min(5, n)
                     /\ (needFive => n >= 5))
        rule4 == cnt(90) >= 1 \/ cnt(80) * 100 >= 20 * n \/ maxA >= 85
        rule5 == \/ (cnt(90) \in 3..5 /\ top3sum >= 3 * 93)
                 \/ (cnt(90) * 100 >= 30 * n /\ cnt(90) * 100 <= 60 * n /\ maxA >= 92)
                 \/ (cnt(80) * 100 >= 40 * n /\ top3sum >= 3 * 90)
    IN  IF keyword /\ rule2 THEN [label |-> "artificial", confidence |-> maxA]
        ELSE IF ~keyword /\ rule3 THEN [label |-> "artificial", confidence |-> maxA]
        ELSE IF keyword /\ rule4 THEN [label |-> "suspicious", confidence |-> maxA]
        ELSE IF ~keyword /\ rule5 THEN [label |-> "suspicious", confidence |-> maxA]
        ELSE [label |-> "real", confidence |-> Max(100 - maxA, 60)]

\* C13 as stated: with N >= 4 frames _decide_label returns the label of the
\* first matching rule in the order 2, 3, 4, 5, 6 (2 and 4 with AI keywords
\* only, 3 and 5 without), rule 3's third clause being frac_a90 >= 0.75 and
\* lowest of the top-5 >= 0.93 for every N >= 4; artificial carries
\* confidence max_artificial, the default real max(1 - max_artificial, 0.6).
C13_AsStated ==
    (gpc = "aggregated" /\ Len(gresults) >= 4) =>
        LET v == RulesVerdict(gresults, gkeyword, FALSE)
        IN  /\ gout.decision.label = v.label
            /\ v.label # "suspicious" => gout.decision.confidence = v.confidence

\* C13 amended: the same, rule 3's third clause being frac_a90 >= 0.75 and
\* N >= 5 and lowest of the top-5 >= 0.93 (never true of 4 frames).
C13_FirstMatchingRule ==
    (gpc = "aggregated" /\ Len(gresults) >= 4) =>
        LET v == RulesVerdict(gresults, gkeyword, TRUE)
        IN  /\ gout.decision.label = v.label
            /\ v.label # "suspicious" => gout.decision.confidence = v.confidence

\* C13 witness: without keywords, five or more frames of which fewer than
\* 60 % reach 0.95 were found artificial (by the third clause of rule 3).
C13_Witness ==
    /\ gpc = "aggregated"
    /\ ~gkeyword
    /\ Len(gresults) >= 5
    /\ Cardinality({i \in DOMAIN gresults : gresults[i].artificial >= 95}) * 100
           < 60 * Len(gresults)
    /\ gout.decision.label = "artificial"
    /\ gout.decision.confidence = 97

\* C14: for every list of per-frame scores within [0,1], of any length, and
\* either keyword verdict, _aggregate returns a label that is one of
\* verified, suspicious, ai-detected and a confidence within [0,1].
C14_LabelAndConfidenceRange ==
    gpc = "aggregated" =>
        /\ gout.label \in {"verified", "suspicious", "ai-detected"}
        /\ 0 <= gout.confidence
        /\ gout.confidence <= 100

\* C14 witness: a decision `artificial` left _aggregate as ai-detected.
C14_Witness ==
    /\ gpc = "aggregated"
    /\ gout.decision.label = "artificial"
    /\ gout.label = "ai-detected"

C16_VoteShareSumsToOne ==
    gpc = "aggregated" =>
        LET vr == gout.vote_share.real
            va == gout.vote_share.artificial
        IN  /\ Len(gresults) >= 1 => vr.num + va.num = vr.den /\ va.den = vr.den
            /\ Len(gresults) = 0 => 2 * vr.num = vr.den /\ 2 * va.num = va.den

\* ------------------------------------------------------------------------
\* Claims about run_discovery_once (specification SpecDiscover)
\* ------------------------------------------------------------------------

\* C17: in one sweep no (platform, video_id) is enqueued twice, whatever
\* duplicates the providers returned.
C17_EnqueuedAtMostOnce ==
    \A i, j \in 1..Len(dqueue) :
        i # j => KeyOf(dqueue[i]) # KeyOf(dqueue[j])

\* C17 witness: a sweep returned after enqueueing, and its raw candidates
\* held the same (platform, video_id) twice.
C17_Witness ==
    /\ dpc = "returned"
    /\ Len(dqueue) >= 1
    /\ \E i, j \in 1..Len(draw) :
          /\ i < j
          /\ KeyOf(draw[i]) = KeyOf(draw[j])
          /\ KeyOf(draw[i]) = KeyOf(dqueue[1])

\* C18: the messages of a sweep are enqueued in non-increasing order of
\* views_per_hour; with total_limit > 0 at most total_limit are enqueued;
\* a sweep that returns has enqueued min(total_limit, number of keys)
\* messages (all keys without a limit), and no key left out has a higher
\* best views_per_hour than an enqueued message.
C18_RankedAndLimited ==
    LET valid == {i \in 1..Len(draw) :
                     GetField(draw[i], "platform") # "" /\ GetField(draw[i], "video_id") # ""}
        keys == {KeyOf(draw[i]) : i \in valid}
        enqueuedKeys == {KeyOf(dqueue[i]) : i \in 1..Len(dqueue)}
    IN  /\ \A i \in 1..(Len(dqueue) - 1) :
              ViewsPerHour(dqueue[i]) >= ViewsPerHour(dqueue[i + 1])
        /\ dlimit > 0 => Len(dqueue) <= dlimit
        /\ dpc = "returned" =>
              /\ Len(dqueue) = IF dlimit > 0 THEN Min(dlimit, Cardinality(keys))
                                            ELSE Cardinality(keys)
              /\ \A i \in valid :
                    KeyOf(draw[i]) \notin enqueuedKeys =>
                        \A q \in 1..Len(dqueue) :
                            ViewsPerHour(draw[i]) <= ViewsPerHour(dqueue[q])

\* C18 witness: with total_limit = 1 a sweep over two keys of different
\* views_per_hour returned with one message enqueued.
C18_Witness ==
    /\ dpc = "returned"
    /\ dlimit = 1
    /\ Len(dqueue) = 1
    /\ \E i \in 1..Len(draw) :
          /\ GetField(draw[i], "video_id") # ""
          /\ KeyOf(draw[i]) # KeyOf(dqueue[1])
          /\ ViewsPerHour(draw[i]) < ViewsPerHour(dqueue[1])

\* ------------------------------------------------------------------------
\* Claims about _upsert_results (specification SpecUpsert)
\* ------------------------------------------------------------------------

\* C19: the videos row and the analyses row are written in one transaction:
\* the two tables hold rows for the same keys, written by the same call;
\* a call that fails (at the videos upsert, the analyses upsert or the
\* commit) leaves both tables unchanged; the tables change only by a commit,
\* which changes both.
C19_SingleTransaction ==
    /\ [](\A r \in uvideos : \E a \in uanalyses :
              /\ a.platform = r.platform
              /\ a.video_id = r.video_id
              /\ a.analyzed_at = r.last_seen_at)
    /\ [](\A a \in uanalyses : \E r \in uvideos :
              a.platform = r.platform /\ a.video_id = r.video_id)
    /\ [][upc' = "failed" => (uvideos' = uvideos /\ uanalyses' = uanalyses)]_vars
    /\ [][(uvideos' # uvideos \/ uanalyses' # uanalyses) =>
              (upc' = "committed" /\ uvideos' # uvideos /\ uanalyses' # uanalyses)]_vars

\* C19 witness: a call failed after its videos upsert had been executed,
\* on tables that held committed rows.
C19_Witness ==
    /\ upc = "failed"
    /\ utxVideos # uvideos
    /\ uvideos # {}

\* C20: a call that commits leaves exactly one videos row and one analyses
\* row for its (platform, video_id); if a videos row was there, its
\* first_seen_at is kept and its last_seen_at advances to the now of this
\* call; the analyses row holds the values of this call.
C20_UpsertTwice ==
    [][(upc = "analyses_done" /\ upc' = "committed") =>
          LET mine(table) == {r \in table : r.platform = urec.platform
                                            /\ r.video_id = urec.video_id}
          IN  /\ Cardinality(mine(uvideos')) = 1
              /\ Cardinality(mine(uanalyses')) = 1
              /\ \A new \in mine(uvideos') :
                    /\ new.last_seen_at = unow
                    /\ \A old \in mine(uvideos) :
                          /\ new.first_seen_at = old.first_seen_at
                          /\ new.last_seen_at > old.last_seen_at
              /\ \A a \in mine(uanalyses') :
                    /\ a.analyzed_at = unow
                    /\ a.label = urec.label
                    /\ a.source_url = urec.source_url]_vars

\* C20 witness: the second write for a key has been committed, with a label
\* that differs from the one of the first write.
C20_Witness ==
    /\ upc = "committed"
    /\ unow = 2
    /\ urec.label = "ai-detected"
    /\ \E r \in uvideos :
          /\ r.video_id = urec.video_id
          /\ r.first_seen_at = 1
          /\ r.last_seen_at = 2

\* C26: when yt-dlp or ffmpeg is not found on PATH, extraction bubbles a
\* tool-not-found error to its caller: the stage that met the missing tool
\* is the last one started, and no further stage of the ladder runs.
C26_ToolNotFoundBubbles ==
    [][(/\ Len(xcause') = Len(xcause) + 1
        /\ xcause'[Len(xcause')] \in {"ytdlp_not_found", "ffmpeg_not_found"})
         => xpc' = "raised"]_vars

\* C25: every blocking external step of frame extraction runs under a
\* timeout, so an extraction that has started always terminates (returns or
\* raises); and a stage whose ffmpeg timed out is followed by the next stage
\* of the ladder (by the final error after stage C).
C25_ExtractTerminates ==
    /\ (xpc \in {"fast", "fallbackA", "fallbackB", "fallbackC", "read"})
          ~> (xpc \in {"returned", "raised"})
    /\ [][(/\ Len(xcause') = Len(xcause) + 1
           /\ xcause'[Len(xcause')] = "ffmpeg_timeout")
            => xpc' = IF xpc = "fast" THEN "fallbackA"
                      ELSE IF xpc = "fallbackA" THEN "fallbackB"
                      ELSE IF xpc = "fallbackB" THEN "fallbackC"
                      ELSE "raised"]_vars

\* C28: the DELETE of a failing invocation removes only the claim that this
\* invocation acquired itself; in particular the key it removes never
\* carries the stamp TTL (a TTL above idempotency_ttl_seconds is written by
\* EXPIRE only, and a failing invocation issues none: such a key is the
\* stamp of another invocation).
C28_DeleteOnlyOwnClaim ==
    [][\A w \in Workers :
         (/\ pc[w] = "except"
          /\ pc'[w] = "failed"
          /\ dedupe'[vid[w]] = 0)
            => dedupe[vid[w]] <= IdempotencyTTL]_vars

\* C29: whenever a dedup key carries the long stamp TTL, the datastore
\* holds the analyses row of that video; and the EXPIRE that stamps a key
\* is issued only by an invocation that is past its cache write and whose
\* upsert committed, never by an invocation in the except path or a
\* skipped one.
C29_StampImpliesRow ==
    /\ [](\A v \in Videos : dedupe[v] > IdempotencyTTL => v \in analyses)
    /\ [][\A v \in Videos :
            (dedupe'[v] = StampTTL /\ dedupe[v] # StampTTL)
               => \E w \in Workers :
                      /\ pc[w] = "cached"
                      /\ pc'[w] = "ok"
                      /\ vid[w] = v
                      /\ wroteDb[w]
                      /\ v \in analyses]_vars

\* C29 witness: a key stamped with the long TTL by an invocation that has
\* returned successfully, while another invocation for the same video has
\* failed without stamping anything.
C29_Witness ==
    \E v \in Videos, w \in Workers, o \in Workers :
        /\ dedupe[v] = StampTTL
        /\ pc[w] = "ok"
        /\ v \in analyses
        /\ o # w
        /\ vid[o] = v
        /\ pc[o] \in {"failed", "skipped"}

\* ------------------------------------------------------------------------
\* Claims about POST /analyze and its callers (specification SpecResolver)
\* ------------------------------------------------------------------------

\* C21: POST /analyze never answers with an HTTP error for an internal
\* failure: an exception raised by extraction or by the inference call gives
\* status 200 with success = false and the error string; success = true is
\* answered only when extraction and inference both completed, with
\* frames_count equal to the number of frames extracted.
C21_AnalyzeAnswers200 ==
    \A q \in Requests :
        zpc[q] = "done" =>
            /\ zresp[q].http = 200
            /\ zraised[q] # "none" =>
                  /\ ~zresp[q].success
                  /\ zresp[q].error = zraised[q]
            /\ zresp[q].success =>
                  /\ zraised[q] = "none"
                  /\ zlast[q] = "ok"
                  /\ zframes[q] >= 1
                  /\ zresp[q].frames_count = zframes[q]

\* C21 witness: one request answered with success and all the frames asked
\* for, another answered after its inference POST got a 5xx.
C21_Witness ==
    \E q, r \in Requests :
        /\ zpc[q] = "done"
        /\ zresp[q].success
        /\ zresp[q].frames_count = MaxTargetFrames
        /\ zpc[r] = "done"
        /\ zlast[r] = "5xx"
        /\ zraised[r] = "inference_failed"

\* C23: a 5xx or network failure of the inference POST made for a job is
\* retried: the job fails (and deletes its claim) on such a failure only
\* after the POST has been attempted 3 times.
C23_InferenceRetried ==
    [][\A q \in Requests :
         (/\ jpc[q] = "waiting"
          /\ jpc'[q] = "failed"
          /\ zlast[q] \in {"5xx", "network"})
            => zposts[q] = StopAfterAttempt]_vars

\* C24: a 4xx answer of the inference endpoint is never retried: the POST
\* that got it is the only one made for that job, analyze answers with the
\* error, and the job that receives this answer fails and deletes its claim.
C24_ClientErrorNotRetried ==
    /\ [](\A q \in Requests : zlast[q] = "4xx" => zposts[q] = 1)
    /\ [][\A q \in Requests :
            (zposts'[q] # zposts[q] /\ zlast'[q] = "4xx")
               => /\ zpc'[q] = "done"
                  /\ ~zresp'[q].success
                  /\ zresp'[q].error = "inference_failed"]_vars
    /\ [][\A q \in Requests :
            (jpc[q] = "waiting" /\ jpc'[q] # "waiting" /\ zlast[q] = "4xx")
               => /\ jpc'[q] = "failed"
                  /\ jkey' = 0]_vars

\* C24 witness: a job has failed on a 4xx of the inference endpoint and its
\* claim is gone.
C24_Witness ==
    \E q \in Requests :
        /\ zlast[q] = "4xx"
        /\ zposts[q] = 1
        /\ jpc[q] = "failed"
        /\ jkey = 0

\* C30: when process_video gives up on a resolver request and deletes the
\* claim, nothing of that request is still running in the resolver; hence
\* the resolver never works on an abandoned request while it works on the
\* request of a later invocation that holds the claim.
C30_NoWorkAfterAbandon ==
    \A q, r \in Requests :
        (/\ jpc[q] = "timed_out"
         /\ jpc[r] = "waiting"
         /\ zpc[r] \in Running)
            => zpc[q] \notin Running

\* ------------------------------------------------------------------------
\* Claims about run_discovery_job (specification SpecScheduler)
\* ------------------------------------------------------------------------

\* C22: the discovery sweep is invoked only in an execution of
\* run_discovery_job whose health check succeeded; an execution whose
\* health check fails enqueues no video.
C22_SweepOnlyWhenHealthy ==
    /\ [](sswept => shealth = "ok")
    /\ [][(sexecs' = sexecs + 1 /\ shealth' = "failed")
             => (~sswept' /\ senqueued' = senqueued)]_vars

\* C22 witness: the health check of the first two executions failed, the
\* third succeeded and its sweep enqueued videos.
C22_Witness ==
    /\ spc = "returned"
    /\ sexecs = 3
    /\ shealth = "ok"
    /\ sswept
    /\ senqueued = MaxItems

\* C27: one firing of run_discovery_job is executed at most
\* discovery_max_retries + 1 times, whatever discovery_max_retries is
\* configured, and every retry is queued with discovery_retry_delay_seconds.
C27_RetriesBounded ==
    /\ sexecs <= smax + 1
    /\ sdelay \in {"none", "discovery_retry_delay_seconds"}

\* ------------------------------------------------------------------------
\* Further claims about _extract_frames (specification SpecExtract)
\* ------------------------------------------------------------------------

\* C31: the frames returned by _extract_frames were all written by the one
\* stage that reported success (the stage started last): a file left in the
\* temp dir by an earlier, failed stage never appears in the returned list.
C31_FramesFromSuccessfulStage ==
    xpc = "returned" =>
        \A p \in 1..Len(xresult) : xresult[p] = xstarted[Len(xstarted)]

\* ------------------------------------------------------------------------
\* Further claims about _aggregate (specification SpecAggregate)
\* ------------------------------------------------------------------------

\* C32: real_votes counts exactly the frames with real >= artificial (a tie
\* is a real vote), artificial_votes counts the other frames, and the two
\* add up to the number of frames.
C32_TieIsRealVote ==
    gpc = "aggregated" =>
        LET realOrTie == {i \in DOMAIN gresults :
                             gresults[i].real >= gresults[i].artificial}
        IN  /\ gout.features.real_votes = Cardinality(realOrTie)
            /\ gout.features.artificial_votes =
                   Len(gresults) - Cardinality(realOrTie)
            /\ gout.features.real_votes + gout.features.artificial_votes
                   = Len(gresults)

\* C33 as stated: with N >= 1 frames, vote_share.real = real_votes / N and
\* vote_share.artificial = artificial_votes / N.
C33_AsStated ==
    (gpc = "aggregated" /\ Len(gresults) >= 1) =>
        /\ gout.vote_share.real.num * Len(gresults)
              = gout.features.real_votes * gout.vote_share.real.den
        /\ gout.vote_share.artificial.num * Len(gresults)
              = gout.features.artificial_votes * gout.vote_share.artificial.den

\* C33, amended: with N >= 1 frames, vote_share.real is the sum of the
\* frames' real scores over T and vote_share.artificial the sum of their
\* artificial scores over T, T being the sum of all the scores (1.0 when
\* that sum is 0).
C33_ShareOfScoreTotals ==
    (gpc = "aggregated" /\ Len(gresults) >= 1) =>
        LET sumReal == SumSeq([i \in DOMAIN gresults |-> gresults[i].real])
            sumArt == SumSeq([i \in DOMAIN gresults |-> gresults[i].artificial])
            t == IF sumReal + sumArt = 0 THEN 100 ELSE sumReal + sumArt
        IN  /\ gout.vote_share.real.num * t
                  = sumReal * gout.vote_share.real.den
            /\ gout.vote_share.artificial.num * t
                  = sumArt * gout.vote_share.artificial.den
            /\ gout.vote_share.real.den > 0
            /\ gout.vote_share.artificial.den > 0

\* C33 witness: an aggregate whose score share differs from its share of
\* votes (all frames vote real, the share of real is below 1).
C33_Witness ==
    /\ gpc = "aggregated"
    /\ Len(gresults) >= 2
    /\ gout.features.real_votes = Len(gresults)
    /\ gout.vote_share.real.num < gout.vote_share.real.den
    /\ gout.vote_share.artificial.num > 0

\* C34: AI keywords never lower the severity of the verdict: for the score
\* list at hand, a verdict artificial without keywords is artificial with
\* them, and a verdict suspicious without them is suspicious or artificial
\* with them.
C34_KeywordsNeverLower ==
    gpc = "aggregated" =>
        LET sev(l) == IF l = "artificial" THEN 2
                      ELSE IF l = "suspicious" THEN 1 ELSE 0
            without == DecideLabel(gresults, CheckHeuristics(FALSE)).label
            with == DecideLabel(gresults, CheckHeuristics(TRUE)).label
        IN  /\ sev(with) >= sev(without)
            /\ gout.decision.label = IF gkeyword THEN with ELSE without

\* C34 witness: a score list judged artificial without keywords, aggregated
\* with keywords; and the keywords do raise some verdicts.
C34_Witness ==
    /\ gpc = "aggregated"
    /\ gkeyword
    /\ gout.decision.label = "artificial"
    /\ DecideLabel(gresults, CheckHeuristics(FALSE)).label = "artificial"
    /\ gout.decision.reason = <<"strong_artificial_with_keywords">>

\* ------------------------------------------------------------------------
\* Further claims about run_discovery_once (specification SpecDiscover)
\* ------------------------------------------------------------------------

\* C35: every message enqueued is one of the candidates collected, has a
\* platform and a video_id, and carries the maximum views_per_hour among
\* the collected candidates of its (platform, video_id).
C35_BestOfKeyEnqueued ==
    \A q \in 1..Len(dqueue) :
        /\ GetField(dqueue[q], "platform") # ""
        /\ GetField(dqueue[q], "video_id") # ""
        /\ \E i \in 1..Len(draw) : draw[i] = dqueue[q]
        /\ \A i \in 1..Len(draw) :
              KeyOf(draw[i]) = KeyOf(dqueue[q]) =>
                  ViewsPerHour(draw[i]) <= ViewsPerHour(dqueue[q])

\* C35 witness: a sweep returned; the key enqueued was collected twice, the
\* better candidate after the worse one, and a candidate without video_id
\* or platform was collected too.
C35_Witness ==
    /\ dpc = "returned"
    /\ Len(dqueue) >= 1
    /\ \E i, j \in 1..Len(draw) :
          /\ i < j
          /\ KeyOf(draw[i]) = KeyOf(dqueue[1])
          /\ KeyOf(draw[j]) = KeyOf(dqueue[1])
          /\ ViewsPerHour(draw[i]) < ViewsPerHour(draw[j])
    /\ \E i \in 1..Len(draw) :
          GetField(draw[i], "platform") = "" \/ GetField(draw[i], "video_id") = ""

\* C36: the exception of a provider does not leave run_discovery_once: the
\* step that logs it goes on to the next provider with the candidates
\* collected so far; and a sweep in which a provider failed, once returned,
\* has enqueued the deduplicated, ranked candidates of the other providers
\* and returns the number of messages enqueued.
C36_ProviderFailureAbsorbed ==
    /\ [][dfailed' # dfailed =>
             /\ dpc' = "collect"
             /\ dnext' = dnext + 1
             /\ draw' = draw]_vars
    /\ [](dfailed # {} /\ dpc = "returned" =>
             LET valid == {i \in 1..Len(draw) :
                              /\ GetField(draw[i], "platform") # ""
                              /\ GetField(draw[i], "video_id") # ""}
                 keys == {KeyOf(draw[i]) : i \in valid}
             IN  /\ dreturned = Len(dqueue)
                 /\ Len(dqueue) = IF dlimit > 0
                                    THEN Min(dlimit, Cardinality(keys))
                                    ELSE Cardinality(keys)
                 /\ \A q \in 1..Len(dqueue) :
                       \E i \in valid : draw[i] = dqueue[q]
                 /\ \A q \in 1..(Len(dqueue) - 1) :
                       ViewsPerHour(dqueue[q]) >= ViewsPerHour(dqueue[q + 1]))

\* C36 witness: one provider failed, the other returned candidates, and the
\* sweep returned having enqueued some of them.
C36_Witness ==
    /\ dpc = "returned"
    /\ Cardinality(dfailed) = 1
    /\ Len(draw) >= 2
    /\ dreturned >= 1

\* ------------------------------------------------------------------------
\* Claims about discover_since of the YouTube provider (SpecYoutube)
\* ------------------------------------------------------------------------

\* C37: a 401 or 403 of search.list or videos.list ends the sweep of its
\* region without raising (no page is fetched for the region afterwards),
\* discover_since goes on with the next region or returns; per region at
\* most MAX_PAGES_PER_SWEEP pages are fetched and at most TOP_PER_REGION
\* items are kept.
C37_AuthErrorStopsRegionOnly ==
    /\ [][yauth' # yauth => ypc' = "break"]_vars
    /\ [][yfetched' = yfetched + 1 => Regions[yregion] \notin yauth]_vars
    /\ [][(ypc = "break" /\ ypc' # ypc) =>
             IF yregion < Len(Regions)
             THEN ypc' = "sweep" /\ yregion' = yregion + 1
             ELSE ypc' = "returned"]_vars
    /\ [](yfetched <= MaxPagesPerSweep)
    /\ [](\A i \in DOMAIN Regions : ykept[Regions[i]] <= TopPerRegion)

\* C37 witness: the sweep of the first region met a 401 or 403 after a page
\* of items, the second region was swept and discover_since returned
\* candidates of both.
C37_Witness ==
    /\ ypc = "returned"
    /\ yauth = {Regions[1]}
    /\ ykept[Regions[1]] >= 1
    /\ ykept[Regions[2]] >= 1
    /\ \E i, j \in DOMAIN ycands :
          ycands[i].region = Regions[1] /\ ycands[j].region = Regions[2]

\* ------------------------------------------------------------------------
\* Claims about the duration probe of the resolver (SpecFps)
\* ------------------------------------------------------------------------

\* C38: when the duration probe fails or prints nothing, the duration is
\* target_frames seconds and the fps of the ffmpeg command is exactly 1.0,
\* whatever target_frames is.
C38_DefaultGivesOneFps ==
    (fpc = "built" /\ (fprobe.raised \/ fprobe.parts = <<BadPart>>)) =>
        /\ fduration = 10 * ftarget
        /\ ffps.num = ffps.den

\* ------------------------------------------------------------------------
\* Claims about process_deep_scan_job (specification SpecDeepScan)
\* ------------------------------------------------------------------------

C40_CleanupOnEveryExit ==
    /\ [](kpc \in {"returned", "raised"} => ~kdir)
    /\ [][(kpc' # kpc /\ klock # "none" /\ klock' = "none") => kacquired]_vars

====
